---- MODULE Spec2Model ----
(***************************************************************************)
(* Stock-provider selection and fallback of the user-stocks-app backend:   *)
(* StockProviderFactory (the registry and selector) and StocksService (its *)
(* only consumer).  Every request is an async call; the steps between two  *)
(* awaits are atomic, and the awaits on isAvailable() and on the adapter's *)
(* data call are the points where other requests and the upstream          *)
(* interleave.                                                             *)
(***************************************************************************)
EXTENDS Integers, Sequences, FiniteSets, TLC

(* config               the StockProviderFactoryConfig StocksService builds   *)
(* factory              "constructed", or "ConfigurationError" when the       *)
(*                      constructor threw                                     *)
(* providers            StockProviderFactory.providers, by provider name      *)
(* currentProviderIndex StockProviderFactory.currentProviderIndex (0-based)   *)
(* upstream             per adapter, what its isAvailable() answers now       *)
(* calls                the requests in flight, each with the locals of its   *)
(*                      async call and the probes it has made                 *)
(* switchStart,         history: the cursor before the current run of         *)
(* switchCount          consecutive switchToNextProvider calls, its length    *)
(* mockCall             one call of StocksService.getMockSearchResults: its   *)
(*                      query and what it returned                            *)
(* adapterCall          one call of an adapter operation: the adapter, the    *)
(*                      operation, the HTTP responses its fetches get and     *)
(*                      what it returned or threw                             *)
(* portfolios           the portfolios collection of the database, in natural *)
(*                      order                                                 *)
(* portfolioCalls       the PortfolioService requests in flight, each with    *)
(*                      the locals of its async call                          *)
(* queryData            the cached user-stocks list of the front end's query  *)
(*                      client, or undefined                                  *)
(* mutations            the addStock and removeStock mutations of             *)
(*                      usePortfolioActions, each with its context            *)
VARIABLES config, factory, providers, currentProviderIndex, upstream, calls,
          switchStart, switchCount, mockCall, adapterCall,
          portfolios, portfolioCalls, queryData, mutations

vars == <<config, factory, providers, currentProviderIndex, upstream, calls,
          switchStart, switchCount, mockCall, adapterCall,
          portfolios, portfolioCalls, queryData, mutations>>

(* Number of requests of any kind that can be in flight at the same time. *)
MaxCalls == 1

(* Number of getCurrentProvider calls in flight at the same time, in the *)
(* specification of the selector's races.                                *)
MaxConcurrent == 2

Calls == 1..(IF MaxCalls > MaxConcurrent THEN MaxCalls ELSE MaxConcurrent)

(* HttpStatus values the code uses. *)
BAD_REQUEST == 400
NOT_FOUND == 404
TOO_MANY_REQUESTS == 429
SERVICE_UNAVAILABLE == 503

FMP == "Financial Modeling Prep"
FINNHUB == "Finnhub"

(* An apiKey as StocksService builds it: configService.get(...) || ''. *)
ApiKeys == {"", "key"}

Configs == [fmp : ApiKeys, finnhub : ApiKeys]

(* An environment variable that is not set: configService.get() answers *)
(* undefined.                                                           *)
UNSET == "(unset)"

(* The values FMP_API_KEY and FINNHUB_API_KEY can have at start-up. *)
Envs == [FMP_API_KEY : ApiKeys \cup {UNSET}, FINNHUB_API_KEY : ApiKeys \cup {UNSET}]

(* value || '' *)
OrEmpty(value) == IF value = UNSET \/ value = "" THEN "" ELSE value

(* The StockProviderFactoryConfig StocksService's constructor builds. *)
ServiceConfig(env) ==
    [fmp |-> OrEmpty(env.FMP_API_KEY), finnhub |-> OrEmpty(env.FINNHUB_API_KEY)]

HttpException(status) == [http |-> TRUE, status |-> status]

(* A rejected fetch() or response.json(): a TypeError/SyntaxError, which is *)
(* not an HttpException.                                                    *)
TransportError == [http |-> FALSE, status |-> 0]

NoError == [http |-> FALSE, status |-> -1]

NoIndex == -1

NoProvider == ""

(* Faulty variant: FMP is instantiated whether or not it has an apiKey. *)
initializeFmpAlways(cfg) ==
    <<FMP>> \o (IF cfg.finnhub # "" THEN <<FINNHUB>> ELSE <<>>)

(* initializeProviders: FMP first, then Finnhub, each only with an apiKey. *)
initializeProviders(cfg) ==
    (IF cfg.fmp # "" THEN <<FMP>> ELSE <<>>)
        \o (IF cfg.finnhub # "" THEN <<FINNHUB>> ELSE <<>>)

(* this.providers[i], with the code's 0-based index. *)
ProviderAt(provs, i) == provs[i + 1]

Adapters(provs) == {provs[k] : k \in 1..Len(provs)}

FactoryOps == {"getCurrentProvider", "getProviderWithFallback"}

ServiceOps == {"searchStocks", "getStockDetail", "getStockQuote"}

(* The HttpException statuses an adapter's data call raises. *)
AdapterStatuses(name, op) ==
    IF name = FMP
    THEN IF op = "searchStocks"
         THEN {BAD_REQUEST, TOO_MANY_REQUESTS}
         ELSE {BAD_REQUEST, NOT_FOUND}
    ELSE IF op = "searchStocks"
         THEN {BAD_REQUEST}
         ELSE {BAD_REQUEST, NOT_FOUND}

(* Every way an adapter's data call can fail. *)
AdapterErrors(name, op) ==
    {HttpException(s) : s \in AdapterStatuses(name, op)} \cup {TransportError}

NoResult ==
    [kind |-> "none", provider |-> NoProvider, error |-> NoError, list |-> <<>>]

ProviderResult(name) ==
    [kind |-> "provider", provider |-> name, error |-> NoError, list |-> <<>>]

ErrorResult(err) ==
    [kind |-> "error", provider |-> NoProvider, error |-> err, list |-> <<>>]

DataResult(name) ==
    [kind |-> "data", provider |-> name, error |-> NoError, list |-> <<>>]

MockResult ==
    [kind |-> "mock", provider |-> NoProvider, error |-> NoError, list |-> <<>>]

StatusResult(list) ==
    [kind |-> "status", provider |-> NoProvider, error |-> NoError, list |-> list]

IdleCall ==
    [pc |-> "idle", op |-> "none", currentProvider |-> NoIndex, i |-> NoIndex,
     probes |-> <<>>, wrote |-> NoIndex, provider |-> NoProvider,
     raised |-> NoError, result |-> NoResult, overlaps |-> {},
     dataCalls |-> <<>>]

Probe(name, available) == [provider |-> name, available |-> available]

InFlight(c) == calls[c].pc \notin {"idle", "done"}

(* The portfolios collection is empty and no PortfolioService request has *)
(* been made.                                                             *)
PortfolioAtRest == portfolios = <<>> /\ portfolioCalls = <<>>

(* getQueryData gives undefined: the user-stocks query has not been fetched. *)
NoQueryData == [defined |-> FALSE, list |-> <<>>, fetching |-> FALSE]

(* The front end has fetched nothing and started no mutation. *)
CacheAtRest == queryData = NoQueryData /\ mutations = <<>>

(* No getMockSearchResults call has been made. *)
NoMockCall == [pc |-> "idle", query |-> <<>>, result |-> <<>>]

(* No adapter operation has been called. *)
NoAdapterCall == [pc |-> "idle"]

(* The factory is built once, at service start-up, from the configuration. *)
Init ==
    /\ config \in {ServiceConfig(env) : env \in Envs}
    /\ providers = initializeProviders(config)
    /\ factory = IF Len(providers) = 0 THEN "ConfigurationError" ELSE "constructed"
    /\ currentProviderIndex = 0
    /\ upstream \in [Adapters(providers) -> BOOLEAN]
    /\ calls = [c \in Calls |-> IdleCall]
    /\ switchStart = NoIndex
    /\ switchCount = 0
    /\ mockCall = NoMockCall
    /\ adapterCall = NoAdapterCall
    /\ PortfolioAtRest
    /\ CacheAtRest

(* Faulty variant: the catch tests for the wrong status. *)
isInternalServerError(error) ==
    error.http /\ error.status = 500

(* Faulty variant: the catch takes every HttpException for an outage. *)
isAnyHttpException(error) == error.http

(* catch (error) of the three StocksService operations: only the selector's *)
(* 503 is turned into mock data.                                            *)
isServiceUnavailable(error) ==
    error.http /\ error.status = SERVICE_UNAVAILABLE

ServiceCatch(error) ==
    IF isServiceUnavailable(error) THEN MockResult ELSE ErrorResult(error)

(* Faulty variant: the fallback hands out the last configured adapter. *)
FallbackLast(provs) == provs[Len(provs)]

(* getProviderWithFallback's catch: "return the first one". *)
FallbackProvider(provs) == provs[1]

(* Faulty variant: the scan covers only the adapters after the current one. *)
ScanAfterCurrent(cursor) == cursor + 1

(* Faulty variant: the scan starts at the current adapter. *)
ScanFromCurrent(cursor) == cursor

(* The index the failover scan starts at, whatever the cursor is: *)
(* for (let i = 0; ...).                                          *)
ScanFirstIndex(cursor) == 0

(* Faulty variant: failover rotates the cursor instead of pinning it. *)
RotatedIndex(i, cursor, n) == (cursor + 1) % n

(* this.currentProviderIndex = i *)
PinnedIndex(i, cursor, n) == i

(* Faulty variant: the increment does not wrap around. *)
NextProviderIndexNoWrap(cursor, n) ==
    IF cursor + 1 < n THEN cursor + 1 ELSE cursor

(* Faulty variant: the switch skips an adapter whose probe would fail. *)
NextAvailableIndex(cursor, n) ==
    IF n > 1 /\ upstream[providers[((cursor + 1) % n) + 1]]
    THEN (cursor + 1) % n
    ELSE cursor

(* Faulty variant: the modulus is one too large. *)
NextProviderIndexPastEnd(cursor, n) == (cursor + 1) % (n + 1)

(* switchToNextProvider's new cursor. *)
NextProviderIndex(cursor, n) ==
    IF n > 1 THEN (cursor + 1) % n ELSE cursor

(* Faulty variant: the pairs come in the order the probes completed in. *)
InCompletionOrder(provs, log) ==
    [k \in 1..Len(log) |->
        [name |-> log[k].provider, available |-> log[k].available]]

(* Promise.all(statusPromises): one pair per provider, in providers order, *)
(* whatever the order the probes completed in.                             *)
PromiseAll(provs, log) ==
    [k \in 1..Len(provs) |->
        LET e == CHOOSE x \in {log[j] : j \in 1..Len(log)} : x.provider = provs[k]
        IN  [name |-> provs[k], available |-> e.available]]

(* What the awaiting caller does once getCurrentProvider has returned p. *)
(* Faulty variant: the adapter returned is read again at the cursor. *)
SelectorReturnsAtCursor(call, p) ==
    LET q == ProviderAt(providers, currentProviderIndex)
    IN  IF call.op \in FactoryOps
        THEN [call EXCEPT !.pc = "done", !.provider = q, !.result = ProviderResult(q)]
        ELSE [call EXCEPT !.pc = "data", !.provider = q,
                          !.dataCalls = Append(@, q)]

SelectorReturns(call, p) ==
    IF call.op \in FactoryOps
    THEN [call EXCEPT !.pc = "done", !.provider = p, !.result = ProviderResult(p)]
    ELSE [call EXCEPT !.pc = "data", !.provider = p,
                      !.dataCalls = Append(@, p)]

(* Faulty variant: the early return is missing, the scan always runs. *)
AlwaysScan(probed, p, available) ==
    [probed EXCEPT !.pc = "scan", !.i = ScanFirstIndex(probed.currentProvider)]

(* if (await currentProvider.isAvailable()) return currentProvider;       *)
(* otherwise the failover loop starts.                                    *)
AfterCurrentProbe(probed, p, available) ==
    IF available
    THEN SelectorReturns(probed, p)
    ELSE [probed EXCEPT !.pc = "scan", !.i = ScanFirstIndex(probed.currentProvider)]

(* What the awaiting caller does once getCurrentProvider has thrown. *)
SelectorThrows(call, error) ==
    [call EXCEPT
        !.pc = "done",
        !.result =
            IF call.op = "getCurrentProvider" THEN ErrorResult(error)
            ELSE IF call.op = "getProviderWithFallback"
            THEN IF Len(providers) > 0
                 THEN ProviderResult(FallbackProvider(providers))
                 ELSE ErrorResult(error)
            ELSE ServiceCatch(error)]

(* Faulty variant: an adapter that failed a probe some request still holds *)
(* is taken to be down without being asked.                                *)
CachedProbeAnswer(p) ==
    /\ upstream[p]
    /\ \A c \in Calls : \A k \in 1..Len(calls[c].probes) :
           calls[c].probes[k] # Probe(p, FALSE)

(* await provider.isAvailable(): the adapter asks its vendor each time. *)
ProbeAnswer(p) == upstream[p]

(* A request enters getCurrentProvider (directly, through                   *)
(* getProviderWithFallback or through a StocksService operation): it reads  *)
(* providers[currentProviderIndex] and awaits its isAvailable().            *)
Start(c, op) ==
    /\ factory = "constructed"
    /\ calls[c].pc = "idle"
    /\ LET peers == {d \in Calls \ {c} : InFlight(d)}
       IN  calls' =
             [d \in Calls |->
                IF d = c
                THEN [IdleCall EXCEPT
                        !.op = op,
                        !.pc = IF Len(providers) = 0 THEN "done" ELSE "probeCurrent",
                        !.result = IF Len(providers) = 0
                                   THEN ErrorResult(HttpException(SERVICE_UNAVAILABLE))
                                   ELSE NoResult,
                        !.currentProvider = currentProviderIndex,
                        !.overlaps = peers]
                ELSE IF d \in peers
                THEN [calls[d] EXCEPT !.overlaps = @ \cup {c}]
                ELSE calls[d]]
    /\ UNCHANGED <<config, factory, providers, currentProviderIndex, upstream,
                   switchStart, switchCount>>
    /\ UNCHANGED <<mockCall, adapterCall>>
    /\ UNCHANGED <<portfolios, portfolioCalls, queryData, mutations>>

(* The probe of the current provider resolves. *)
ProbeCurrent(c) ==
    /\ calls[c].pc = "probeCurrent"
    /\ LET p == ProviderAt(providers, calls[c].currentProvider)
           available == ProbeAnswer(p)
           probed == [calls[c] EXCEPT !.probes = Append(@, Probe(p, available))]
       IN  calls' = [calls EXCEPT ![c] = AfterCurrentProbe(probed, p, available)]
    /\ UNCHANGED <<config, factory, providers, currentProviderIndex, upstream,
                   switchStart, switchCount>>
    /\ UNCHANGED <<mockCall, adapterCall>>
    /\ UNCHANGED <<portfolios, portfolioCalls, queryData, mutations>>

(* One iteration of the failover loop: the probe of providers[i] resolves. *)
ScanProbe(c) ==
    /\ calls[c].pc = "scan"
    /\ LET i == calls[c].i
           n == Len(providers)
       IN  IF i < n
           THEN LET p == ProviderAt(providers, i)
                    available == ProbeAnswer(p)
                    probed == [calls[c] EXCEPT !.probes = Append(@, Probe(p, available))]
                    pinned == PinnedIndex(i, currentProviderIndex, n)
                IN  IF available
                    THEN /\ currentProviderIndex' = pinned
                         /\ calls' = [calls EXCEPT ![c] =
                                SelectorReturns([probed EXCEPT !.wrote = pinned], p)]
                         /\ switchStart' = NoIndex
                         /\ switchCount' = 0
                    ELSE /\ calls' = [calls EXCEPT ![c] =
                                IF i + 1 < n
                                THEN [probed EXCEPT !.i = i + 1]
                                ELSE SelectorThrows(probed,
                                         HttpException(SERVICE_UNAVAILABLE))]
                         /\ UNCHANGED <<currentProviderIndex, switchStart, switchCount>>
           ELSE /\ calls' = [calls EXCEPT ![c] =
                       SelectorThrows(calls[c], HttpException(SERVICE_UNAVAILABLE))]
                /\ UNCHANGED <<currentProviderIndex, switchStart, switchCount>>
    /\ UNCHANGED <<config, factory, providers, upstream>>
    /\ UNCHANGED <<mockCall, adapterCall>>
    /\ UNCHANGED <<portfolios, portfolioCalls, queryData, mutations>>

(* Faulty variant: a data call that succeeds moves the cursor on. *)
DataCallSucceedsAndSwitches(c) ==
    /\ calls[c].pc = "data"
    /\ calls' = [calls EXCEPT ![c] =
                    [@ EXCEPT !.pc = "done", !.result = DataResult(calls[c].provider)]]
    /\ currentProviderIndex' =
           NextProviderIndex(currentProviderIndex, Len(providers))
    /\ UNCHANGED <<config, factory, providers, upstream, switchStart, switchCount>>
    /\ UNCHANGED <<mockCall, adapterCall>>
    /\ UNCHANGED <<portfolios, portfolioCalls, queryData, mutations>>

(* The data call on the chosen adapter succeeds. *)
DataCallSucceeds(c) ==
    /\ calls[c].pc = "data"
    /\ calls' = [calls EXCEPT ![c] =
                    [@ EXCEPT !.pc = "done", !.result = DataResult(calls[c].provider)]]
    /\ UNCHANGED <<config, factory, providers, currentProviderIndex, upstream,
                   switchStart, switchCount>>
    /\ UNCHANGED <<mockCall, adapterCall>>
    /\ UNCHANGED <<portfolios, portfolioCalls, queryData, mutations>>

(* Faulty variant: a failed data call is tried again on an adapter the *)
(* request has not used yet.                                           *)
RetryOnOtherAdapter(call, error) ==
    LET unused == {q \in Adapters(providers) :
                      \A k \in 1..Len(call.dataCalls) : call.dataCalls[k] # q}
    IN  IF unused # {}
        THEN LET q == CHOOSE x \in unused : TRUE
             IN  [call EXCEPT !.raised = error, !.provider = q,
                              !.dataCalls = Append(@, q)]
        ELSE [call EXCEPT !.pc = "done", !.raised = error,
                          !.result = ServiceCatch(error)]

(* catch (error) { ... throw error; }: the request ends with what the *)
(* catch decides; the data call is not made again.                    *)
AfterDataCallFails(call, error) ==
    [call EXCEPT !.pc = "done", !.raised = error, !.result = ServiceCatch(error)]

(* The data call on the chosen adapter fails and the service's catch runs. *)
DataCallFails(c, error) ==
    /\ calls[c].pc = "data"
    /\ error \in AdapterErrors(calls[c].provider, calls[c].op)
    /\ calls' = [calls EXCEPT ![c] = AfterDataCallFails(calls[c], error)]
    /\ UNCHANGED <<config, factory, providers, currentProviderIndex, upstream,
                   switchStart, switchCount>>
    /\ UNCHANGED <<mockCall, adapterCall>>
    /\ UNCHANGED <<portfolios, portfolioCalls, queryData, mutations>>

(* getProviderStatus: every provider's isAvailable() is called at once. *)
StartStatus(c) ==
    /\ factory = "constructed"
    /\ calls[c].pc = "idle"
    /\ calls' = [calls EXCEPT ![c] =
                    [IdleCall EXCEPT !.op = "getProviderStatus", !.pc = "status"]]
    /\ UNCHANGED <<config, factory, providers, currentProviderIndex, upstream,
                   switchStart, switchCount>>
    /\ UNCHANGED <<mockCall, adapterCall>>
    /\ UNCHANGED <<portfolios, portfolioCalls, queryData, mutations>>

(* One of getProviderStatus's probes resolves; the last one completes the *)
(* Promise.all.                                                           *)
StatusProbe(c, p) ==
    /\ calls[c].pc = "status"
    /\ p \in Adapters(providers)
    /\ \A j \in 1..Len(calls[c].probes) : calls[c].probes[j].provider # p
    /\ LET log == Append(calls[c].probes, Probe(p, ProbeAnswer(p)))
       IN  calls' = [calls EXCEPT ![c] =
                IF Len(log) = Len(providers)
                THEN [@ EXCEPT !.probes = log, !.pc = "done",
                               !.result = StatusResult(PromiseAll(providers, log))]
                ELSE [@ EXCEPT !.probes = log]]
    /\ UNCHANGED <<config, factory, providers, currentProviderIndex, upstream,
                   switchStart, switchCount>>
    /\ UNCHANGED <<mockCall, adapterCall>>
    /\ UNCHANGED <<portfolios, portfolioCalls, queryData, mutations>>

(* switchToNextProvider (POST stocks/providers/switch): synchronous. *)
switchToNextProvider ==
    /\ factory = "constructed"
    /\ currentProviderIndex' =
           NextProviderIndex(currentProviderIndex, Len(providers))
    /\ IF switchCount = 0 \/ switchCount >= Len(providers)
       THEN /\ switchStart' = currentProviderIndex
            /\ switchCount' = 1
       ELSE /\ switchStart' = switchStart
            /\ switchCount' = switchCount + 1
    /\ UNCHANGED <<config, factory, providers, upstream, calls>>
    /\ UNCHANGED <<mockCall, adapterCall>>
    /\ UNCHANGED <<portfolios, portfolioCalls, queryData, mutations>>

(* The response is delivered and the request is over. *)
Return(c) ==
    /\ calls[c].pc = "done"
    /\ calls' = [d \in Calls |->
                    IF d = c THEN IdleCall
                    ELSE [calls[d] EXCEPT !.overlaps = @ \ {c}]]
    /\ UNCHANGED <<config, factory, providers, currentProviderIndex, upstream,
                   switchStart, switchCount>>
    /\ UNCHANGED <<mockCall, adapterCall>>
    /\ UNCHANGED <<portfolios, portfolioCalls, queryData, mutations>>

(* A vendor goes down or comes back: its probe answers differently from now. *)
UpstreamChange(p) ==
    /\ factory = "constructed"
    /\ p \in Adapters(providers)
    /\ upstream' = [upstream EXCEPT ![p] = ~@]
    /\ UNCHANGED <<config, factory, providers, currentProviderIndex, calls,
                   switchStart, switchCount>>
    /\ UNCHANGED <<mockCall, adapterCall>>
    /\ UNCHANGED <<portfolios, portfolioCalls, queryData, mutations>>

Next ==
    \/ \E c \in 1..MaxCalls, op \in FactoryOps \cup ServiceOps : Start(c, op)
    \/ \E c \in 1..MaxCalls : ProbeCurrent(c)
    \/ \E c \in 1..MaxCalls : ScanProbe(c)
    \/ \E c \in 1..MaxCalls : DataCallSucceeds(c)
    \/ \E c \in 1..MaxCalls, s \in {BAD_REQUEST, NOT_FOUND, TOO_MANY_REQUESTS, 0} :
          DataCallFails(c, IF s = 0 THEN TransportError ELSE HttpException(s))
    \/ \E c \in 1..MaxCalls : StartStatus(c)
    \/ \E c \in 1..MaxCalls, p \in {FMP, FINNHUB} : StatusProbe(c, p)
    \/ switchToNextProvider
    \/ \E c \in 1..MaxCalls : Return(c)
    \/ \E p \in {FMP, FINNHUB} : UpstreamChange(p)

Spec == Init /\ [][Next]_vars

(* The selector alone, under concurrent requests: several getCurrentProvider *)
(* calls suspended on their probes at once, manual switches and a changing   *)
(* upstream.                                                                 *)
NextConcurrent ==
    \/ \E c \in 1..MaxConcurrent : Start(c, "getCurrentProvider")
    \/ \E c \in 1..MaxConcurrent : ProbeCurrent(c)
    \/ \E c \in 1..MaxConcurrent : ScanProbe(c)
    \/ switchToNextProvider
    \/ \E c \in 1..MaxConcurrent : Return(c)
    \/ \E p \in {FMP, FINNHUB} : UpstreamChange(p)

SpecConcurrent == Init /\ [][NextConcurrent]_vars

(***************************************************************************)
(* Properties of the selector and of the service.                          *)
(***************************************************************************)

(* The call went through getCurrentProvider. *)
ThroughSelector(c) == calls[c].op \in FactoryOps \cup ServiceOps

(* getCurrentProvider has returned an adapter to call c. *)
SelectorReturned(c) == ThroughSelector(c) /\ calls[c].provider # NoProvider

(* The probe of the current adapter came back false. *)
CurrentUnavailable(c) ==
    /\ ThroughSelector(c)
    /\ Len(calls[c].probes) >= 1
    /\ ~calls[c].probes[1].available

(* getCurrentProvider has thrown in call c: every probe it made failed. *)
NonePassed(c) ==
    /\ ThroughSelector(c)
    /\ calls[c].pc = "done"
    /\ \A k \in 1..Len(calls[c].probes) : ~calls[c].probes[k].available

(* The probes of call c after the first are those of adapters 0, 1, ..., r *)
(* in that order, all false but the last.                                  *)
ScannedUpTo(log, r) ==
    /\ Len(log) = r + 2
    /\ \A k \in 0..r : log[k + 2].provider = providers[k + 1]
    /\ \A k \in 0..(r - 1) : ~log[k + 2].available
    /\ log[r + 2].available

(* C1: when the probe of the current adapter returns false,                *)
(* getCurrentProvider returns the lowest-index adapter whose probe returns *)
(* true in a scan of the adapters from index 0, and at the step it returns *)
(* the cursor is that adapter's index.                                     *)
C1_ScanReturnsLowestAvailable ==
    [][\A c \in Calls :
          (calls[c].pc = "scan" /\ calls'[c].provider # NoProvider) =>
             \E r \in 0..(Len(providers) - 1) :
                /\ ~calls'[c].probes[1].available
                /\ ScannedUpTo(calls'[c].probes, r)
                /\ calls'[c].provider = providers[r + 1]
                /\ currentProviderIndex' = r]_vars

(* C1 witness: two adapters, the cursor on adapter 0, adapter[0] probed   *)
(* false twice, adapter[1] probed true: adapter[1] returned, cursor 1.     *)
C1_Witness ==
    \E c \in Calls :
        /\ providers = <<FMP, FINNHUB>>
        /\ calls[c].probes =
              <<Probe(FMP, FALSE), Probe(FMP, FALSE), Probe(FINNHUB, TRUE)>>
        /\ calls[c].provider = FINNHUB
        /\ currentProviderIndex = 1

(* C2: when the probe of the adapter at the cursor returns true,           *)
(* getCurrentProvider returns that adapter at once: the call has made      *)
(* exactly one probe, of the adapter at the cursor it read, has returned   *)
(* that adapter and has not written the cursor.                            *)
C2_AvailableCurrentReturnedAtOnce ==
    \A c \in Calls :
        (/\ ThroughSelector(c)
         /\ Len(calls[c].probes) >= 1
         /\ calls[c].probes[1].available) =>
            /\ Len(calls[c].probes) = 1
            /\ calls[c].probes[1].provider = providers[calls[c].currentProvider + 1]
            /\ calls[c].provider = providers[calls[c].currentProvider + 1]
            /\ calls[c].pc \in {"data", "done"}
            /\ calls[c].wrote = NoIndex

(* C2 witness: the cursor is on adapter 1, its probe is true, and it is *)
(* returned while adapter 0 is available too and was never probed.      *)
C2_Witness ==
    \E c \in Calls :
        /\ calls[c].op = "getCurrentProvider"
        /\ calls[c].pc = "done"
        /\ calls[c].currentProvider = 1
        /\ calls[c].probes = <<Probe(FINNHUB, TRUE)>>
        /\ calls[c].result = ProviderResult(FINNHUB)
        /\ upstream[FMP]

(* C3 as stated: an adapter whose first probe failed is returned by the   *)
(* same call only after every other adapter has been probed and has       *)
(* failed.                                                                *)
C3_SameAdapterOnlyAfterAllOthers ==
    \A c \in Calls :
        (/\ CurrentUnavailable(c)
         /\ SelectorReturned(c)
         /\ calls[c].provider = calls[c].probes[1].provider) =>
            \A q \in Adapters(providers) \ {calls[c].provider} :
                \E k \in 2..Len(calls[c].probes) :
                    /\ calls[c].probes[k].provider = q
                    /\ ~calls[c].probes[k].available

(* C3 amended: an adapter whose first probe failed is returned by the     *)
(* same call only after every adapter of lower index has been probed, in  *)
(* index order from 0, and has failed, and after the adapter itself has   *)
(* been probed again and has passed; adapters of higher index are not     *)
(* probed.                                                                *)
C3_SameAdapterOnlyAfterLowerOnes ==
    \A c \in Calls :
        (/\ CurrentUnavailable(c)
         /\ SelectorReturned(c)
         /\ calls[c].provider = calls[c].probes[1].provider) =>
            /\ calls[c].probes[1].provider = providers[calls[c].currentProvider + 1]
            /\ ScannedUpTo(calls[c].probes, calls[c].currentProvider)

(* C3 witness: adapter 1 fails its first probe, adapter 0 fails in the *)
(* scan, adapter 1 passes its second probe and is returned.            *)
C3_Witness ==
    \E c \in Calls :
        /\ calls[c].probes =
              <<Probe(FINNHUB, FALSE), Probe(FMP, FALSE), Probe(FINNHUB, TRUE)>>
        /\ calls[c].provider = FINNHUB

(* C4: when no adapter passes its probe, getCurrentProvider fails with    *)
(* 503 and getProviderWithFallback returns the adapter at index 0;        *)
(* getProviderWithFallback never fails.                                   *)
C4_UnavailableVersusFallback ==
    \A c \in Calls :
        /\ (calls[c].op = "getCurrentProvider" /\ NonePassed(c)) =>
               calls[c].result = ErrorResult(HttpException(SERVICE_UNAVAILABLE))
        /\ (calls[c].op = "getProviderWithFallback" /\ NonePassed(c)) =>
               calls[c].result = ProviderResult(providers[1])
        /\ (calls[c].op = "getProviderWithFallback" /\ calls[c].pc = "done") =>
               calls[c].result.kind = "provider"

(* C4 witness: two adapters, the cursor on adapter 1, all three probes *)
(* false, and getProviderWithFallback has returned adapter 0.          *)
C4_Witness ==
    \E c \in Calls :
        /\ calls[c].op = "getProviderWithFallback"
        /\ NonePassed(c)
        /\ Len(calls[c].probes) = 3
        /\ calls[c].currentProvider = 1
        /\ calls[c].result = ProviderResult(FMP)

(* C5: when every adapter fails its probe, searchStocks, getStockDetail   *)
(* and getStockQuote complete with mock data and raise nothing.           *)
C5_OutageServedByMock ==
    \A c \in Calls :
        (calls[c].op \in ServiceOps /\ NonePassed(c)) =>
            calls[c].result = MockResult

(* C5 witness: a service call with two adapters, both down, is done with *)
(* mock data.                                                            *)
C5_Witness ==
    \E c \in Calls :
        /\ calls[c].op = "getStockDetail"
        /\ NonePassed(c)
        /\ Len(calls[c].probes) = Len(providers) + 1
        /\ Len(providers) = 2
        /\ calls[c].result.kind = "mock"

(* C6: an error raised by the chosen adapter's data call reaches the  *)
(* caller as that same error, never as mock data.                     *)
C6_AdapterErrorPropagates ==
    \A c \in Calls :
        (calls[c].pc = "done" /\ calls[c].raised # NoError) =>
            calls[c].result = ErrorResult(calls[c].raised)

(* C6 witness: getStockQuote raised NotFound on the chosen adapter and the *)
(* caller got NotFound.                                                    *)
C6_Witness ==
    \E c \in Calls :
        /\ calls[c].op = "getStockQuote"
        /\ calls[c].pc = "done"
        /\ calls[c].raised = HttpException(NOT_FOUND)
        /\ calls[c].result.kind = "error"
        /\ calls[c].result.error.status = NOT_FOUND

(* The two calls ran at the same time, each saw the provider at the same *)
(* cursor fail its probe, and each found an adapter in its scan.         *)
BothFailedOver(c, d) ==
    /\ c # d
    /\ d \in calls[c].overlaps
    /\ CurrentUnavailable(c)
    /\ CurrentUnavailable(d)
    /\ calls[c].currentProvider = calls[d].currentProvider
    /\ calls[c].wrote # NoIndex
    /\ calls[d].wrote # NoIndex

(* No adapter answered two probes of the two calls differently. *)
ProbesAgree(c, d) ==
    LET log == calls[c].probes \o calls[d].probes
    IN  \A j, k \in 1..Len(log) :
            log[j].provider = log[k].provider => log[j].available = log[k].available

(* C7 as stated: concurrent getCurrentProvider calls that both see the *)
(* current provider unavailable write the same cursor value.           *)
C7_ConcurrentScansWriteSameCursor ==
    \A c, d \in Calls :
        BothFailedOver(c, d) => calls[c].wrote = calls[d].wrote

(* C7 amended: concurrent getCurrentProvider calls that both see the      *)
(* current provider unavailable write the same cursor value when every    *)
(* adapter answers all the probes of the two calls alike.                 *)
C7_SameCursorUnderStableProbes ==
    \A c, d \in Calls :
        (BothFailedOver(c, d) /\ ProbesAgree(c, d)) =>
            /\ calls[c].wrote = calls[d].wrote
            /\ calls[c].provider = calls[d].provider

(* C7 witness: two overlapping calls saw adapter 1 fail, both scanned and *)
(* both pinned the cursor to adapter 0.                                   *)
C7_Witness ==
    \E c, d \in Calls :
        /\ BothFailedOver(c, d)
        /\ ProbesAgree(c, d)
        /\ calls[c].currentProvider = 1
        /\ calls[c].wrote = 0
        /\ calls[d].wrote = 0
        /\ calls[c].pc = "done"
        /\ calls[d].pc = "done"

(* C8: N calls of switchToNextProvider in a row, N the number of adapters, *)
(* bring the cursor back to where it was.                                  *)
C8_SwitchCycleReturns ==
    (factory = "constructed" /\ switchCount = Len(providers)) =>
        currentProviderIndex = switchStart

(* C8 witness: two adapters, two switches in a row from cursor 1, cursor 1. *)
C8_Witness ==
    /\ Len(providers) = 2
    /\ switchCount = 2
    /\ switchStart = 1
    /\ currentProviderIndex = 1

(* C9: switchToNextProvider sets the cursor to (cursor + 1) mod N whatever *)
(* the adapters' availability, probes nothing and touches no request; with *)
(* one adapter the cursor stays.                                           *)
C9_SwitchIsBlindIncrement ==
    [][switchToNextProvider =>
          /\ currentProviderIndex' = (currentProviderIndex + 1) % Len(providers)
          /\ (Len(providers) = 1 => currentProviderIndex' = currentProviderIndex)
          /\ calls' = calls
          /\ upstream' = upstream]_vars

(* C9 witness: one switch moved the cursor from an available adapter 0 to *)
(* an unavailable adapter 1.                                              *)
C9_Witness ==
    /\ Len(providers) = 2
    /\ switchCount = 1
    /\ switchStart = 0
    /\ currentProviderIndex = 1
    /\ upstream[FMP]
    /\ ~upstream[FINNHUB]

(* getProviderStatus's answer: one pair per adapter, in providers order, *)
(* with the result of that adapter's probe.                              *)
StatusAnswer(c) ==
    LET list == calls[c].result.list
        log == calls[c].probes
    IN  /\ Len(list) = Len(providers)
        /\ Len(log) = Len(providers)
        /\ \A k \in 1..Len(providers) :
              /\ list[k].name = providers[k]
              /\ \E j \in 1..Len(log) :
                    /\ log[j].provider = providers[k]
                    /\ log[j].available = list[k].available

(* C10: getProviderStatus returns one name/available pair per adapter, in *)
(* configured order, with that adapter's probe result, and no step of it  *)
(* changes the cursor.                                                    *)
C10_StatusPairsAndCursor ==
    /\ [](\A c \in Calls :
             (calls[c].op = "getProviderStatus" /\ calls[c].pc = "done") =>
                 StatusAnswer(c))
    /\ [][\A c \in Calls :
             (calls'[c].op = "getProviderStatus" /\ calls'[c] # calls[c]) =>
                 currentProviderIndex' = currentProviderIndex]_vars

(* C10 witness: the probes completed Finnhub first, FMP second, and the *)
(* answer still lists FMP first; the cursor is on adapter 1.            *)
C10_Witness ==
    \E c \in Calls :
        /\ calls[c].op = "getProviderStatus"
        /\ calls[c].pc = "done"
        /\ calls[c].probes = <<Probe(FINNHUB, TRUE), Probe(FMP, FALSE)>>
        /\ calls[c].result.list =
              <<[name |-> FMP, available |-> FALSE],
                [name |-> FINNHUB, available |-> TRUE]>>
        /\ currentProviderIndex = 1

(* The 0-based index of adapter q in providers. *)
IndexOfProvider(q) == CHOOSE k \in 0..(Len(providers) - 1) : providers[k + 1] = q

(* C11: when the current provider, chosen because its probe passed, fails  *)
(* its data call (an error or a rate limit) while another configured       *)
(* provider is available, the StocksService call is served by the other    *)
(* provider and the cursor moves to it.                                    *)
C11_FailedProviderIsReplaced ==
    [][\A c \in Calls :
          (/\ calls[c].op \in ServiceOps
           /\ calls[c].pc = "data"
           /\ calls'[c].raised # NoError
           /\ calls[c].provider = providers[calls[c].currentProvider + 1]
           /\ \E q \in Adapters(providers) \ {calls[c].provider} : upstream[q]) =>
              \E q \in Adapters(providers) \ {calls[c].provider} :
                 /\ calls'[c].result = DataResult(q)
                 /\ currentProviderIndex' = IndexOfProvider(q)]_vars

(* C12: a StocksService request makes the data call of at most one       *)
(* adapter, the one getCurrentProvider chose; once that call has failed  *)
(* the request is over, no second data call having been made.            *)
C12_OneDataCallPerRequest ==
    \A c \in Calls :
        /\ Len(calls[c].dataCalls) <= 1
        /\ calls[c].dataCalls # <<>> =>
              /\ calls[c].op \in ServiceOps
              /\ calls[c].dataCalls = <<calls[c].provider>>
        /\ calls[c].raised # NoError =>
              /\ calls[c].pc = "done"
              /\ Len(calls[c].dataCalls) = 1

(* C12 witness: the data call on FMP failed with the request over, while *)
(* Finnhub is configured and available and was never called.             *)
C12_Witness ==
    \E c \in Calls :
        /\ providers = <<FMP, FINNHUB>>
        /\ calls[c].op = "searchStocks"
        /\ calls[c].pc = "done"
        /\ calls[c].raised = TransportError
        /\ calls[c].dataCalls = <<FMP>>
        /\ upstream[FINNHUB]

(* C13: the selector keeps no memory of failed probes: every call probes   *)
(* the adapter at the cursor it read, gets what the adapter answers now    *)
(* and returns that adapter when the answer is true, whatever earlier      *)
(* probes answered; and two calls that read the same cursor and observed   *)
(* the same probe results end alike.                                       *)
C13_NoMemoryOfFailedProbes ==
    /\ [](\A c, d \in Calls :
             (/\ calls[c].pc = "done"
              /\ calls[d].pc = "done"
              /\ calls[c].op = calls[d].op
              /\ calls[c].currentProvider = calls[d].currentProvider
              /\ calls[c].probes = calls[d].probes) =>
                 /\ calls[c].result = calls[d].result
                 /\ calls[c].wrote = calls[d].wrote)
    /\ [][\A d \in Calls :
             (calls[d].pc = "probeCurrent" /\ calls'[d].pc # "probeCurrent") =>
                LET p == providers[calls[d].currentProvider + 1]
                IN  /\ calls'[d].probes = <<Probe(p, upstream[p])>>
                    /\ upstream[p] =>
                          /\ calls'[d].provider = p
                          /\ calls'[d].result = ProviderResult(p)]_vars

(* C13 witness: one call saw FMP fail its probes and found nothing; a call  *)
(* that did not overlap it read the same cursor, probed FMP again and got   *)
(* it back.                                                                 *)
C13_Witness ==
    \E c, d \in Calls :
        /\ c # d
        /\ d \notin calls[c].overlaps
        /\ calls[c].pc = "done"
        /\ calls[c].currentProvider = 0
        /\ calls[c].probes[1] = Probe(FMP, FALSE)
        /\ calls[c].result.kind = "error"
        /\ calls[d].pc = "done"
        /\ calls[d].currentProvider = 0
        /\ calls[d].probes = <<Probe(FMP, TRUE)>>
        /\ calls[d].result = ProviderResult(FMP)

(* C14: the factory holds an adapter for exactly the providers whose apiKey *)
(* is not empty, FMP before Finnhub; its construction fails exactly when    *)
(* both keys are empty, which is what StocksService passes when both        *)
(* FMP_API_KEY and FINNHUB_API_KEY are unset or empty; a service whose      *)
(* construction failed serves nothing.                                      *)
C14_AdaptersFollowApiKeys ==
    /\ config \in Configs
    /\ providers =
          IF config.fmp # "" /\ config.finnhub # "" THEN <<FMP, FINNHUB>>
          ELSE IF config.fmp # "" THEN <<FMP>>
          ELSE IF config.finnhub # "" THEN <<FINNHUB>>
          ELSE <<>>
    /\ (factory = "ConfigurationError") = (config.fmp = "" /\ config.finnhub = "")
    /\ factory \in {"ConfigurationError", "constructed"}
    /\ factory = "ConfigurationError" => \A c \in Calls : calls[c] = IdleCall
    /\ \A env \in Envs :
          (env.FMP_API_KEY \in {UNSET, ""} /\ env.FINNHUB_API_KEY \in {UNSET, ""}) =>
              initializeProviders(ServiceConfig(env)) = <<>>

(* C14 witness: only Finnhub has a key, the factory holds Finnhub alone *)
(* and has served a quote from it.                                      *)
C14_Witness ==
    \E c \in Calls :
        /\ config.fmp = ""
        /\ config.finnhub # ""
        /\ providers = <<FINNHUB>>
        /\ calls[c].op = "getStockQuote"
        /\ calls[c].result = DataResult(FINNHUB)

(***************************************************************************)
(* StocksService.getMockSearchResults, the search served under a total     *)
(* outage.  A string is the sequence of its characters.                    *)
(***************************************************************************)

(* Longest query the mock search is called with. *)
MaxQueryLen == 2

(* The characters queries are made of: letters in both cases, a letter of *)
(* no catalog entry and a punctuation mark.                               *)
QueryChars == {"a", "A", "M", "s", "p", "x", "."}

UpperCase == <<"A", "B", "C", "D", "E", "F", "G", "H", "I", "J", "K", "L", "M",
               "N", "O", "P", "Q", "R", "S", "T", "U", "V", "W", "X", "Y", "Z">>

LowerCase == <<"a", "b", "c", "d", "e", "f", "g", "h", "i", "j", "k", "l", "m",
               "n", "o", "p", "q", "r", "s", "t", "u", "v", "w", "x", "y", "z">>

(* String.prototype.toLowerCase, one character. *)
toLowerCaseChar(ch) ==
    IF \E k \in 1..Len(UpperCase) : UpperCase[k] = ch
    THEN LowerCase[CHOOSE k \in 1..Len(UpperCase) : UpperCase[k] = ch]
    ELSE ch

(* Faulty variant: the string is left as it is. *)
keepCase(str) == str

(* String.prototype.toLowerCase. *)
toLowerCase(str) == [k \in 1..Len(str) |-> toLowerCaseChar(str[k])]

(* String.prototype.includes. *)
includes(str, search) ==
    \E k \in 0..(Len(str) - Len(search)) :
        SubSeq(str, k + 1, k + Len(search)) = search

(* const mockStocks: the symbol and name of each entry; the numeric fields *)
(* are literals the search neither reads nor changes.                      *)
mockStocks ==
    << [symbol |-> <<"A", "A", "P", "L">>,
        name   |-> <<"A", "p", "p", "l", "e", " ", "I", "n", "c", ".">>],
       [symbol |-> <<"G", "O", "O", "G", "L">>,
        name   |-> <<"A", "l", "p", "h", "a", "b", "e", "t", " ", "I", "n", "c", ".">>],
       [symbol |-> <<"M", "S", "F", "T">>,
        name   |-> <<"M", "i", "c", "r", "o", "s", "o", "f", "t", " ",
                     "C", "o", "r", "p", "o", "r", "a", "t", "i", "o", "n">>],
       [symbol |-> <<"T", "S", "L", "A">>,
        name   |-> <<"T", "e", "s", "l", "a", " ", "I", "n", "c", ".">>],
       [symbol |-> <<"A", "M", "Z", "N">>,
        name   |-> <<"A", "m", "a", "z", "o", "n", ".", "c", "o", "m", " ",
                     "I", "n", "c", ".">>] >>

(* Faulty variant: only the symbol is searched. *)
matchesSymbol(stock, query) ==
    includes(toLowerCase(stock.symbol), toLowerCase(query))

(* The predicate of mockStocks.filter. *)
matchesQuery(stock, query) ==
    \/ includes(toLowerCase(stock.symbol), toLowerCase(query))
    \/ includes(toLowerCase(stock.name), toLowerCase(query))

getMockSearchResults(query) ==
    LET matches(stock) == matchesQuery(stock, query)
        filteredStocks == SelectSeq(mockStocks, matches)
    IN  IF Len(filteredStocks) > 0 THEN filteredStocks ELSE SubSeq(mockStocks, 1, 3)

(* Every string of at most MaxQueryLen characters. *)
Queries == UNION {[1..n -> QueryChars] : n \in 0..MaxQueryLen}

(* The selector while the mock search and the adapters are looked at on *)
(* their own: both adapters configured, no request in flight.           *)
SelectorAtRest ==
    /\ config = [fmp |-> "key", finnhub |-> "key"]
    /\ providers = initializeProviders(config)
    /\ factory = "constructed"
    /\ currentProviderIndex = 0
    /\ upstream = [p \in Adapters(providers) |-> FALSE]
    /\ calls = [c \in Calls |-> IdleCall]
    /\ switchStart = NoIndex
    /\ switchCount = 0

selectorVars ==
    <<config, factory, providers, currentProviderIndex, upstream, calls,
      switchStart, switchCount>>

(* The mock search is called with some query. *)
InitMock ==
    /\ SelectorAtRest
    /\ mockCall \in [pc : {"called"}, query : Queries, result : {<<>>}]
    /\ adapterCall = NoAdapterCall
    /\ PortfolioAtRest
    /\ CacheAtRest

(* getMockSearchResults runs to its return: it awaits nothing. *)
MockSearchReturns ==
    /\ mockCall.pc = "called"
    /\ mockCall' = [mockCall EXCEPT !.pc = "returned",
                                    !.result = getMockSearchResults(mockCall.query)]
    /\ UNCHANGED <<selectorVars, adapterCall>>
    /\ UNCHANGED <<portfolios, portfolioCalls, queryData, mutations>>

NextMock == MockSearchReturns

SpecMock == InitMock /\ [][NextMock]_vars

(* The two characters are the same letter, whatever their case. *)
SameLetter(a, b) ==
    \/ a = b
    \/ \E k \in 1..Len(UpperCase) : {a, b} = {UpperCase[k], LowerCase[k]}

(* The text contains the query as a case-insensitive substring. *)
ContainsIgnoringCase(text, query) ==
    \E start \in 0..(Len(text) - Len(query)) :
        \A k \in 1..Len(query) : SameLetter(text[start + k], query[k])

(* The catalog positions of the entries the query matches. *)
CatalogMatches(query) ==
    {k \in 1..Len(mockStocks) :
        \/ ContainsIgnoringCase(mockStocks[k].symbol, query)
        \/ ContainsIgnoringCase(mockStocks[k].name, query)}

(* C15: the mock search returns, in catalog order, exactly the catalog     *)
(* entries whose symbol or name contains the query as a case-insensitive   *)
(* substring, and exactly the first 3 catalog entries when none matches.   *)
C15_MockSearchFiltersCatalog ==
    mockCall.pc = "returned" =>
        LET matching == CatalogMatches(mockCall.query)
            result == mockCall.result
        IN  IF matching = {}
            THEN result = <<mockStocks[1], mockStocks[2], mockStocks[3]>>
            ELSE /\ Len(result) = Cardinality(matching)
                 /\ \A j \in 1..Len(result) :
                       \E k \in matching :
                          /\ result[j] = mockStocks[k]
                          /\ Cardinality({m \in matching : m < k}) = j - 1

(* C15 witness: the query "M" has returned the third and the fifth entry: *)
(* it is in MSFT and AMZN as typed and in the two names in the other case. *)
C15_Witness ==
    /\ mockCall.pc = "returned"
    /\ mockCall.query = <<"M">>
    /\ mockCall.result = <<mockStocks[3], mockStocks[5]>>

(* A query no entry matches has returned the first three entries. *)
C15_NoMatchReturnsFirstThree ==
    /\ mockCall.pc = "returned"
    /\ CatalogMatches(mockCall.query) = {}
    /\ Len(mockCall.result) = 3

(***************************************************************************)
(* The adapters, FMPStockProvider and FinnhubStockProvider.  An adapter    *)
(* keeps no state but its configuration, so an operation is a function of  *)
(* the HTTP responses its fetches get.  The strings the code searches or   *)
(* replaces when empty are character sequences.                            *)
(***************************************************************************)

(* Largest number a vendor payload carries. *)
MaxValue == 1

(* Longest vendor search result taken with every mix of entries. *)
MaxResults == 2

(* Longest vendor search result, beyond the ten entries the adapters keep. *)
MaxLongResults == 12

(* usStocks = data.filter(...).slice(0, 10) *)
SliceEnd == 10

(* JavaScript values of a numeric field: absent, null or a number. *)
Undefined == [t |-> "undefined", v |-> 0]

Null == [t |-> "null", v |-> 0]

Num(n) == [t |-> "number", v |-> n]

JSNumbers == {Undefined, Null} \cup {Num(n) : n \in 0..MaxValue}

(* A string-valued field that is absent. *)
UNDEFINED == <<"(undefined)">>

(* Faulty variant: the field is passed on as the vendor sent it. *)
AsSent(x) == x

(* x || 0 *)
OrZero(x) == IF x.t = "number" /\ x.v # 0 THEN x ELSE Num(0)

(* a || b, on strings *)
OrString(a, b) == IF a = UNDEFINED \/ a = <<>> THEN b ELSE a

(* What an operation throws besides HttpException and the rejection of *)
(* fetch: the TypeError of a property read on undefined or null, the   *)
(* SyntaxError of response.json().                                     *)
JsError(name) == [http |-> FALSE, status |-> 0, name |-> name]

(* A JSON body: not JSON at all, null, the vendor's error object (FMP: *)
(* {"Error Message": ...}, Finnhub: {"error": ...}), an array, or an   *)
(* object with the fields given.                                       *)
Unparsable == [t |-> "unparsable"]

JsonNull == [t |-> "null"]

ErrorPayload == [t |-> "error"]

JsonArray(items) == [t |-> "array", items |-> items]

JsonObject(fields) == [t |-> "object", fields |-> fields]

(* fetch() rejects: no response at all. *)
Rejected == [rejected |-> TRUE, ok |-> FALSE, body |-> Unparsable]

(* fetch() resolves with a response whose status is or is not 2xx. *)
Response(ok, body) == [rejected |-> FALSE, ok |-> ok, body |-> body]

(* The fetch is not made by the operation called. *)
NoResponse == [rejected |-> FALSE, ok |-> FALSE, body |-> [t |-> "none"]]

(* data.length === 0 *)
IsEmptyArray(data) == data.t = "array" /\ Len(data.items) = 0

(* data[0] is an object *)
HasFirst(data) == data.t = "array" /\ Len(data.items) > 0

Returned(value) == [kind |-> "returned", value |-> value, error |-> NoError]

Threw(error) == [kind |-> "threw", value |-> <<>>, error |-> error]

NoOutcome == [kind |-> "none", value |-> <<>>, error |-> NoError]

(* FMPStockProvider.transformFMPStockToStock *)
transformFMPStockToStock(fmpStock) ==
    [symbol        |-> OrString(fmpStock.symbol, <<>>),
     name          |-> OrString(fmpStock.name, OrString(fmpStock.symbol, <<>>)),
     price         |-> OrZero(fmpStock.price),
     change        |-> OrZero(fmpStock.change),
     changePercent |-> OrZero(fmpStock.changesPercentage),
     volume        |-> OrZero(fmpStock.volume),
     marketCap     |-> OrZero(fmpStock.marketCap),
     pe            |-> OrZero(fmpStock.pe),
     eps           |-> OrZero(fmpStock.eps)]

(* fmpProfile?.field, on profileData[0] *)
FmpProfileField(profileData, field) ==
    IF HasFirst(profileData) THEN profileData.items[1][field] ELSE UNDEFINED

(* FMPStockProvider.transformFMPDataToStockDetail: the Stock fields and, of *)
(* the profile fields, sector, industry and website.                        *)
transformFMPDataToStockDetail(fmpStock, profileData) ==
    LET baseStock == transformFMPStockToStock(fmpStock)
    IN  [symbol        |-> baseStock.symbol,
         name          |-> baseStock.name,
         price         |-> baseStock.price,
         change        |-> baseStock.change,
         changePercent |-> baseStock.changePercent,
         volume        |-> baseStock.volume,
         marketCap     |-> baseStock.marketCap,
         pe            |-> baseStock.pe,
         eps           |-> baseStock.eps,
         sector        |-> FmpProfileField(profileData, "sector"),
         industry      |-> FmpProfileField(profileData, "industry"),
         website       |-> FmpProfileField(profileData, "website")]

(* FMPStockProvider.getStockQuote *)
FMP_getStockQuote(symbol, response) ==
    IF response.rejected THEN Threw(TransportError)
    ELSE IF ~response.ok THEN Threw(HttpException(BAD_REQUEST))
    ELSE LET data == response.body
         IN  IF data.t = "unparsable" THEN Threw(JsError("SyntaxError"))
             ELSE IF data.t = "null" \/ IsEmptyArray(data)
             THEN Threw(HttpException(NOT_FOUND))
             ELSE IF ~HasFirst(data) THEN Threw(JsError("TypeError"))
             ELSE Returned(transformFMPStockToStock(data.items[1]))

(* FMPStockProvider.getStockDetail *)
FMP_getStockDetail(symbol, quoteResponse, profileResponse) ==
    IF quoteResponse.rejected \/ profileResponse.rejected THEN Threw(TransportError)
    ELSE IF ~quoteResponse.ok THEN Threw(HttpException(BAD_REQUEST))
    ELSE LET quoteData == quoteResponse.body
             profileData == IF profileResponse.ok THEN profileResponse.body
                            ELSE JsonArray(<<>>)
         IN  IF quoteData.t = "unparsable" THEN Threw(JsError("SyntaxError"))
             ELSE IF profileData.t = "unparsable" THEN Threw(JsError("SyntaxError"))
             ELSE IF quoteData.t = "null" \/ IsEmptyArray(quoteData)
             THEN Threw(HttpException(NOT_FOUND))
             ELSE IF profileData.t = "null" THEN Threw(JsError("TypeError"))
             ELSE IF ~HasFirst(quoteData) THEN Threw(JsError("TypeError"))
             ELSE Returned(transformFMPDataToStockDetail(quoteData.items[1],
                                                         profileData))

(* The entry searchStocks returns when the quote of a candidate is not to *)
(* be had.                                                                *)
StubStock(symbol, name) ==
    [symbol |-> symbol, name |-> name, price |-> Num(0), change |-> Num(0),
     changePercent |-> Num(0), volume |-> Num(0), marketCap |-> Num(0),
     pe |-> Num(0), eps |-> Num(0)]

(* The callback of usStocks.map in FMPStockProvider.searchStocks; item.quote *)
(* is the response the quote request for item.symbol gets.                   *)
FMP_hydrate(item) ==
    LET quoteResponse == item.quote
    IN  IF /\ ~quoteResponse.rejected
           /\ quoteResponse.ok
           /\ HasFirst(quoteResponse.body)
        THEN transformFMPStockToStock(quoteResponse.body.items[1])
        ELSE StubStock(item.symbol, item.name)

(* Faulty variant: five entries are kept. *)
SliceFive(list) == SubSeq(list, 1, IF Len(list) < 5 THEN Len(list) ELSE 5)

(* Array.prototype.slice(0, 10) *)
Slice(list) == SubSeq(list, 1, IF Len(list) < SliceEnd THEN Len(list) ELSE SliceEnd)

FMP_isUsStock(item) == item.exchangeShortName \in {"NASDAQ", "NYSE", "AMEX"}

(* FMPStockProvider.searchStocks *)
FMP_searchStocks(response) ==
    IF response.rejected THEN Threw(TransportError)
    ELSE IF ~response.ok THEN Threw(HttpException(BAD_REQUEST))
    ELSE LET data == response.body
         IN  IF data.t = "unparsable" THEN Threw(JsError("SyntaxError"))
             ELSE IF data.t = "null" \/ IsEmptyArray(data) THEN Returned(<<>>)
             ELSE IF data.t = "error" THEN Threw(HttpException(TOO_MANY_REQUESTS))
             ELSE IF data.t # "array" THEN Threw(JsError("TypeError"))
             ELSE LET usStocks == Slice(SelectSeq(data.items, FMP_isUsStock))
                      (* usStocks.map(...); Promise.all keeps the order *)
                  IN  Returned([k \in 1..Len(usStocks) |-> FMP_hydrate(usStocks[k])])

(* data.c and its siblings: undefined unless the body is an object that *)
(* has the field.                                                       *)
FinnhubField(data, field) ==
    IF data.t = "object" THEN data.fields[field] ELSE Undefined

(* FinnhubStockProvider.transformFinnhubQuoteToStock *)
transformFinnhubQuoteToStock(symbol, quote) ==
    [symbol        |-> symbol,
     name          |-> symbol,
     price         |-> OrZero(FinnhubField(quote, "c")),
     change        |-> OrZero(FinnhubField(quote, "d")),
     changePercent |-> OrZero(FinnhubField(quote, "dp")),
     volume        |-> Num(0),
     marketCap     |-> Num(0),
     pe            |-> Num(0),
     eps           |-> Num(0)]

(* profile?.field, a string *)
FinnhubProfileField(profile, field) ==
    IF profile.t = "object" THEN profile.fields[field] ELSE UNDEFINED

(* FinnhubStockProvider.transformFinnhubDataToStockDetail: the Stock fields *)
(* and, of the others, sector, industry and website.                        *)
transformFinnhubDataToStockDetail(symbol, quote, profile) ==
    LET baseStock == transformFinnhubQuoteToStock(symbol, quote)
        marketCapitalization ==
            IF profile.t = "object" THEN profile.fields.marketCapitalization
            ELSE Undefined
    IN  [symbol        |-> baseStock.symbol,
         name          |-> OrString(FinnhubProfileField(profile, "name"), symbol),
         price         |-> baseStock.price,
         change        |-> baseStock.change,
         changePercent |-> baseStock.changePercent,
         volume        |-> baseStock.volume,
         marketCap     |-> IF OrZero(marketCapitalization) # Num(0)
                           THEN Num(marketCapitalization.v * 1000000)
                           ELSE baseStock.marketCap,
         pe            |-> baseStock.pe,
         eps           |-> baseStock.eps,
         sector        |-> UNDEFINED,
         industry      |-> FinnhubProfileField(profile, "finnhubIndustry"),
         website       |-> FinnhubProfileField(profile, "weburl")]

(* data.c === null || data.c === undefined *)
FinnhubNoPrice(data) == FinnhubField(data, "c").t \in {"null", "undefined"}

(* FinnhubStockProvider.getStockQuote *)
Finnhub_getStockQuote(symbol, response) ==
    IF response.rejected THEN Threw(TransportError)
    ELSE IF ~response.ok THEN Threw(HttpException(BAD_REQUEST))
    ELSE LET data == response.body
         IN  IF data.t = "unparsable" THEN Threw(JsError("SyntaxError"))
             ELSE IF data.t = "null" \/ FinnhubNoPrice(data)
             THEN Threw(HttpException(NOT_FOUND))
             ELSE Returned(transformFinnhubQuoteToStock(symbol, data))

(* FinnhubStockProvider.getStockDetail *)
Finnhub_getStockDetail(symbol, quoteResponse, profileResponse) ==
    IF quoteResponse.rejected \/ profileResponse.rejected THEN Threw(TransportError)
    ELSE IF ~quoteResponse.ok THEN Threw(HttpException(BAD_REQUEST))
    ELSE LET quoteData == quoteResponse.body
             profileData == IF profileResponse.ok THEN profileResponse.body
                            ELSE JsonNull
         IN  IF quoteData.t = "unparsable" THEN Threw(JsError("SyntaxError"))
             ELSE IF profileData.t = "unparsable" THEN Threw(JsError("SyntaxError"))
             ELSE IF quoteData.t = "null" \/ FinnhubNoPrice(quoteData)
             THEN Threw(HttpException(NOT_FOUND))
             ELSE Returned(transformFinnhubDataToStockDetail(symbol, quoteData,
                                                             profileData))

(* The callback of usStocks.map in FinnhubStockProvider.searchStocks. *)
Finnhub_hydrate(item) ==
    LET quoted == Finnhub_getStockQuote(item.symbol, item.quote)
    IN  IF quoted.kind = "returned"
        THEN [quoted.value EXCEPT !.name = OrString(item.description, @)]
        ELSE StubStock(item.symbol, item.description)

Finnhub_isUsStock(item) ==
    item.type = "Common Stock" /\ ~includes(item.symbol, <<".">>)

(* FinnhubStockProvider.searchStocks *)
Finnhub_searchStocks(response) ==
    IF response.rejected THEN Threw(TransportError)
    ELSE IF ~response.ok THEN Threw(HttpException(BAD_REQUEST))
    ELSE LET data == response.body
         IN  IF data.t = "unparsable" THEN Threw(JsError("SyntaxError"))
             ELSE IF data.t = "null" THEN Threw(JsError("TypeError"))
             ELSE IF data.t # "object" \/ Len(data.fields.result) = 0
             THEN Returned(<<>>)
             ELSE LET usStocks == Slice(SelectSeq(data.fields.result,
                                                  Finnhub_isUsStock))
                      (* usStocks.map(...); Promise.all keeps the order *)
                  IN  Returned([k \in 1..Len(usStocks) |->
                                   Finnhub_hydrate(usStocks[k])])

(* Faulty variant: the status of the response is not looked at. *)
FMP_isAvailableWhateverStatus(response) ==
    IF response.rejected THEN Returned(FALSE)
    ELSE IF response.body.t \in {"unparsable", "null"} THEN Returned(FALSE)
    ELSE Returned(response.body.t # "error")

(* FMPStockProvider.isAvailable: the rejection of fetch, the SyntaxError of *)
(* response.json() and the TypeError of null.hasOwnProperty are caught.     *)
FMP_isAvailable(response) ==
    IF response.rejected THEN Returned(FALSE)
    ELSE IF response.body.t \in {"unparsable", "null"} THEN Returned(FALSE)
    ELSE Returned(response.body.t # "error" /\ response.ok)

(* data.hasOwnProperty('c') *)
FinnhubHasPrice(data) == data.t = "object" /\ data.fields.c # Undefined

(* FinnhubStockProvider.isAvailable: response.json() is awaited before the *)
(* status is looked at; && stops at a false response.ok, before            *)
(* data.hasOwnProperty can throw.                                          *)
Finnhub_isAvailable(response) ==
    IF response.rejected THEN Returned(FALSE)
    ELSE IF response.body.t = "unparsable" THEN Returned(FALSE)
    ELSE IF ~response.ok THEN Returned(FALSE)
    ELSE IF response.body.t = "null" THEN Returned(FALSE)
    ELSE Returned(response.body.t # "error" /\ FinnhubHasPrice(response.body))

(* The symbol the quote and the detail are asked for. *)
AAPL == <<"A", "A", "P", "L">>

(* The quote objects FMP can send for a symbol: each of price, change,  *)
(* changesPercentage and volume absent, null or a number; the other     *)
(* fields all there or all absent.                                      *)
FMPStocks(symbol) ==
    {[symbol            |-> IF rest THEN symbol ELSE UNDEFINED,
      name              |-> IF rest THEN symbol ELSE UNDEFINED,
      price             |-> price,
      change            |-> change,
      changesPercentage |-> changesPercentage,
      volume            |-> volume,
      marketCap         |-> IF rest THEN Num(MaxValue) ELSE Undefined,
      pe                |-> IF rest THEN Num(MaxValue) ELSE Undefined,
      eps               |-> IF rest THEN Num(MaxValue) ELSE Undefined] :
        price \in JSNumbers, change \in JSNumbers,
        changesPercentage \in JSNumbers, volume \in JSNumbers, rest \in BOOLEAN}

(* The quote objects Finnhub can send: c, d and dp absent, null or a *)
(* number.                                                           *)
FinnhubQuotes ==
    {JsonObject([c |-> c, d |-> d, dp |-> dp]) :
        c \in JSNumbers, d \in JSNumbers, dp \in JSNumbers}

(* Bodies any endpoint can answer with, whatever the status. *)
PlainBodies == {Unparsable, JsonNull, ErrorPayload}

QuoteBodies(adapter, symbol) ==
    IF adapter = FMP
    THEN PlainBodies \cup {JsonArray(<<>>)}
            \cup {JsonArray(<<fmpStock>>) : fmpStock \in FMPStocks(symbol)}
    ELSE PlainBodies \cup FinnhubQuotes

(* What the fetch of an endpoint can give: a rejection, a 2xx response with *)
(* any body of the endpoint, another status with a plain body.              *)
Responses(bodies) ==
    {Rejected} \cup {Response(TRUE, body) : body \in bodies}
               \cup {Response(FALSE, body) : body \in PlainBodies}

Texts == {UNDEFINED, <<"t", "e", "x", "t">>}

ProfileBodies(adapter) ==
    IF adapter = FMP
    THEN PlainBodies \cup {JsonArray(<<>>)}
            \cup {JsonArray(<<[sector |-> sector, industry |-> industry,
                               website |-> website]>>) :
                     sector \in Texts, industry \in Texts, website \in Texts}
    ELSE PlainBodies
            \cup {JsonObject([name |-> name, finnhubIndustry |-> industry,
                              weburl |-> weburl, marketCapitalization |-> cap]) :
                     name \in Texts, industry \in Texts, weburl \in Texts,
                     cap \in {Undefined, Num(MaxValue)}}

(* The symbol and the name of the k-th entry of a vendor search result. *)
SymbolAt(k) == <<"S", ToString(k)>>

NameAt(k) == <<"N", ToString(k)>>

(* A quote with every field there. *)
FullQuote(adapter, symbol) ==
    IF adapter = FMP
    THEN JsonArray(<<[symbol |-> symbol, name |-> symbol, price |-> Num(MaxValue),
                      change |-> Num(MaxValue), changesPercentage |-> Num(MaxValue),
                      volume |-> Num(MaxValue), marketCap |-> Num(MaxValue),
                      pe |-> Num(MaxValue), eps |-> Num(MaxValue)]>>)
    ELSE JsonObject([c |-> Num(MaxValue), d |-> Num(MaxValue), dp |-> Num(MaxValue)])

(* A 2xx quote body that carries no quote. *)
EmptyQuote(adapter) ==
    IF adapter = FMP THEN JsonArray(<<>>)
    ELSE JsonObject([c |-> Undefined, d |-> Undefined, dp |-> Undefined])

(* What the quote request made for a search entry can give. *)
ItemQuoteResponses(adapter, symbol) ==
    {Rejected, Response(FALSE, ErrorPayload), Response(TRUE, Unparsable),
     Response(TRUE, EmptyQuote(adapter)), Response(TRUE, FullQuote(adapter, symbol))}

(* The entries a vendor search result can have at position k. *)
Items(adapter, k) ==
    IF adapter = FMP
    THEN {[symbol |-> SymbolAt(k), name |-> NameAt(k),
           exchangeShortName |-> exchange, quote |-> quote] :
             exchange \in {"NASDAQ", "NYSE", "AMEX", "LSE"},
             quote \in ItemQuoteResponses(FMP, SymbolAt(k))}
    ELSE UNION {{[symbol |-> symbol, description |-> NameAt(k),
                  type |-> type, quote |-> quote] :
                    type \in {"Common Stock", "ETP"},
                    quote \in ItemQuoteResponses(FINNHUB, symbol)} :
                 symbol \in {SymbolAt(k), SymbolAt(k) \o <<".", "L">>}}

(* Every vendor search result of n entries. *)
RECURSIVE Results(_, _)
Results(adapter, n) ==
    IF n = 0 THEN {<<>>}
    ELSE {Append(list, item) :
             list \in Results(adapter, n - 1), item \in Items(adapter, n)}

(* The k-th entry of a long vendor search result: a US stock, unless it is *)
(* the first entry of a result that starts with a foreign one; the quotes  *)
(* of the entries at even positions are not to be had.                     *)
LongItem(adapter, k, foreignFirst) ==
    LET quote == IF k % 2 = 0 THEN Rejected
                 ELSE Response(TRUE, FullQuote(adapter, SymbolAt(k)))
    IN  IF adapter = FMP
        THEN [symbol |-> SymbolAt(k), name |-> NameAt(k),
              exchangeShortName |-> IF k = 1 /\ foreignFirst THEN "LSE" ELSE "NYSE",
              quote |-> quote]
        ELSE [symbol |-> SymbolAt(k), description |-> NameAt(k),
              type |-> IF k = 1 /\ foreignFirst THEN "ETP" ELSE "Common Stock",
              quote |-> quote]

LongResults(adapter) ==
    {[k \in 1..n |-> LongItem(adapter, k, foreignFirst)] :
        n \in (MaxResults + 1)..MaxLongResults, foreignFirst \in BOOLEAN}

SearchBodies(adapter) ==
    LET lists == UNION {Results(adapter, n) : n \in 0..MaxResults}
                    \cup LongResults(adapter)
    IN  PlainBodies \cup
        (IF adapter = FMP THEN {JsonArray(list) : list \in lists}
         ELSE {JsonObject([result |-> list]) : list \in lists})

AdapterCall(adapter, op, quote, profile, search) ==
    [pc |-> "called", adapter |-> adapter, op |-> op, symbol |-> AAPL,
     quote |-> quote, profile |-> profile, search |-> search,
     outcome |-> NoOutcome]

(* What the probe request of isAvailable, a quote request for AAPL, can  *)
(* give; a response with another status than 2xx can carry a full quote. *)
ProbeResponses(adapter) ==
    Responses(QuoteBodies(adapter, AAPL))
        \cup {Response(FALSE, FullQuote(adapter, AAPL))}

(* An operation of an adapter is called, and the vendor will answer each of *)
(* its requests in one of the ways it can.                                  *)
InitAdapter ==
    /\ SelectorAtRest
    /\ mockCall = NoMockCall
    /\ PortfolioAtRest
    /\ CacheAtRest
    /\ \E adapter \in {FMP, FINNHUB} :
          \/ \E quote \in Responses(QuoteBodies(adapter, AAPL)) :
                adapterCall =
                   AdapterCall(adapter, "getStockQuote", quote, NoResponse, NoResponse)
          \/ \E quote \in Responses(QuoteBodies(adapter, AAPL)),
                profile \in Responses(ProfileBodies(adapter)) :
                adapterCall =
                   AdapterCall(adapter, "getStockDetail", quote, profile, NoResponse)
          \/ \E search \in Responses(SearchBodies(adapter)) :
                adapterCall =
                   AdapterCall(adapter, "searchStocks", NoResponse, NoResponse, search)
          \/ \E quote \in ProbeResponses(adapter) :
                adapterCall =
                   AdapterCall(adapter, "isAvailable", quote, NoResponse, NoResponse)

(* getStockQuote runs to its end. *)
getStockQuote ==
    /\ adapterCall.pc = "called"
    /\ adapterCall.op = "getStockQuote"
    /\ adapterCall' =
          [adapterCall EXCEPT
              !.pc = "returned",
              !.outcome = IF adapterCall.adapter = FMP
                          THEN FMP_getStockQuote(adapterCall.symbol, adapterCall.quote)
                          ELSE Finnhub_getStockQuote(adapterCall.symbol,
                                                     adapterCall.quote)]
    /\ UNCHANGED <<selectorVars, mockCall>>
    /\ UNCHANGED <<portfolios, portfolioCalls, queryData, mutations>>

(* getStockDetail runs to its end. *)
getStockDetail ==
    /\ adapterCall.pc = "called"
    /\ adapterCall.op = "getStockDetail"
    /\ adapterCall' =
          [adapterCall EXCEPT
              !.pc = "returned",
              !.outcome = IF adapterCall.adapter = FMP
                          THEN FMP_getStockDetail(adapterCall.symbol,
                                   adapterCall.quote, adapterCall.profile)
                          ELSE Finnhub_getStockDetail(adapterCall.symbol,
                                   adapterCall.quote, adapterCall.profile)]
    /\ UNCHANGED <<selectorVars, mockCall>>
    /\ UNCHANGED <<portfolios, portfolioCalls, queryData, mutations>>

(* searchStocks runs to its end. *)
searchStocks ==
    /\ adapterCall.pc = "called"
    /\ adapterCall.op = "searchStocks"
    /\ adapterCall' =
          [adapterCall EXCEPT
              !.pc = "returned",
              !.outcome = IF adapterCall.adapter = FMP
                          THEN FMP_searchStocks(adapterCall.search)
                          ELSE Finnhub_searchStocks(adapterCall.search)]
    /\ UNCHANGED <<selectorVars, mockCall>>
    /\ UNCHANGED <<portfolios, portfolioCalls, queryData, mutations>>

(* isAvailable runs to its end. *)
isAvailable ==
    /\ adapterCall.pc = "called"
    /\ adapterCall.op = "isAvailable"
    /\ adapterCall' =
          [adapterCall EXCEPT
              !.pc = "returned",
              !.outcome = IF adapterCall.adapter = FMP
                          THEN FMP_isAvailable(adapterCall.quote)
                          ELSE Finnhub_isAvailable(adapterCall.quote)]
    /\ UNCHANGED <<selectorVars, mockCall>>
    /\ UNCHANGED <<portfolios, portfolioCalls, queryData, mutations>>

NextAdapter ==
    \/ getStockQuote
    \/ getStockDetail
    \/ searchStocks
    \/ isAvailable

SpecAdapter == InitAdapter /\ [][NextAdapter]_vars

(* The call of the operation has come to its end. *)
Ended(op) == adapterCall.pc = "returned" /\ adapterCall.op = op

(* price, change, changePercent and volume are numbers. *)
QuoteFieldsNumeric(stock) ==
    \A field \in {"price", "change", "changePercent", "volume"} :
        stock[field].t = "number"

(* NotFound, or UpstreamRequestFailed: what a non-2xx response and a *)
(* transport error make the adapters throw.                          *)
NotFoundOrRequestFailed ==
    {HttpException(NOT_FOUND), HttpException(BAD_REQUEST), TransportError}

(* C16: for both adapters and every upstream response (2xx with data, with *)
(* missing fields, empty or with an error payload, non-2xx, transport      *)
(* error) getStockQuote returns a record whose price, change,              *)
(* changePercent and volume are numbers, or fails with NotFound or         *)
(* UpstreamRequestFailed, and with no other kind of error.                 *)
C16_QuoteIsNumericOrFailsAsUpstream ==
    (/\ Ended("getStockQuote")
     /\ \/ adapterCall.quote.rejected
        \/ ~adapterCall.quote.ok
        \/ adapterCall.quote.body.t \in {"array", "object", "error"}) =>
        \/ /\ adapterCall.outcome.kind = "returned"
           /\ QuoteFieldsNumeric(adapterCall.outcome.value)
        \/ /\ adapterCall.outcome.kind = "threw"
           /\ adapterCall.outcome.error \in NotFoundOrRequestFailed

(* The response to the request the operation is about (the quote for *)
(* getStockQuote and getStockDetail, the search for searchStocks).   *)
MainResponse ==
    IF adapterCall.op = "searchStocks" THEN adapterCall.search ELSE adapterCall.quote

(* The vendor's payload signals a rate limit or an API error; the profile *)
(* request of getStockDetail, if made, is answered well.                  *)
PayloadSignalsError ==
    /\ adapterCall.pc = "returned"
    /\ ~MainResponse.rejected
    /\ MainResponse.ok
    /\ MainResponse.body = ErrorPayload
    /\ adapterCall.op = "getStockDetail" =>
          /\ ~adapterCall.profile.rejected
          /\ adapterCall.profile.ok
          /\ adapterCall.profile.body.t \in {"array", "object"}

(* C17: when the payload signals a rate limit or an API error, each of   *)
(* searchStocks, getStockDetail and getStockQuote fails with an          *)
(* HttpException; it returns neither a record nor an empty result.       *)
C17_ErrorPayloadFailsWithHttpException ==
    PayloadSignalsError =>
        /\ adapterCall.outcome.kind = "threw"
        /\ adapterCall.outcome.error.http

(* The quote request of getStockDetail was answered with a quote. *)
QuoteSucceeded ==
    /\ ~adapterCall.quote.rejected
    /\ adapterCall.quote.ok
    /\ adapterCall.quote.body = FullQuote(adapterCall.adapter, adapterCall.symbol)

(* C18: getStockDetail whose profile request fails, by a non-2xx response *)
(* or a transport error, while the quote request succeeds, returns a      *)
(* record with the quote fields and sector, industry and website          *)
(* undefined.                                                             *)
C18_ProfileFailureLeavesQuoteFields ==
    (/\ Ended("getStockDetail")
     /\ QuoteSucceeded
     /\ adapterCall.profile.rejected \/ ~adapterCall.profile.ok) =>
        /\ adapterCall.outcome.kind = "returned"
        /\ QuoteFieldsNumeric(adapterCall.outcome.value)
        /\ adapterCall.outcome.value.price = Num(MaxValue)
        /\ adapterCall.outcome.value.sector = UNDEFINED
        /\ adapterCall.outcome.value.industry = UNDEFINED
        /\ adapterCall.outcome.value.website = UNDEFINED

(* The vendor search call succeeded: a 2xx response with a result list. *)
SearchSucceeded ==
    /\ Ended("searchStocks")
    /\ ~adapterCall.search.rejected
    /\ adapterCall.search.ok
    /\ adapterCall.search.body.t = (IF adapterCall.adapter = FMP THEN "array"
                                    ELSE "object")

(* The vendor's search result list. *)
VendorResults ==
    IF adapterCall.adapter = FMP THEN adapterCall.search.body.items
    ELSE adapterCall.search.body.fields.result

(* The positions in the vendor's list of the entries the adapter keeps as *)
(* candidates.                                                            *)
CandidatePositions ==
    {k \in 1..Len(VendorResults) :
        IF adapterCall.adapter = FMP THEN FMP_isUsStock(VendorResults[k])
        ELSE Finnhub_isUsStock(VendorResults[k])}

(* The j-th candidate, in the vendor's order. *)
Candidate(j) ==
    VendorResults[CHOOSE k \in CandidatePositions :
                     Cardinality({m \in CandidatePositions : m < k}) = j - 1]

(* The quote of the candidate was not to be had: transport error, non-2xx, *)
(* no JSON, or no data.                                                    *)
HydrationFailed(item) ==
    \/ item.quote.rejected
    \/ ~item.quote.ok
    \/ item.quote.body \in {Unparsable, EmptyQuote(adapterCall.adapter)}

(* C19: once the vendor search call has succeeded, searchStocks returns    *)
(* one entry per candidate, for the first 10 candidates at most, in the    *)
(* vendor's order; a candidate whose quote is not to be had gives a stub   *)
(* with its symbol, its name and zeros, and the search neither fails nor   *)
(* drops the entry.                                                        *)
C19_OneEntryPerCandidate ==
    SearchSucceeded =>
        LET result == adapterCall.outcome.value
            count == Cardinality(CandidatePositions)
        IN  /\ adapterCall.outcome.kind = "returned"
            /\ Len(result) = (IF count < 10 THEN count ELSE 10)
            /\ \A j \in 1..Len(result) :
                  LET item == Candidate(j)
                  IN  /\ result[j].symbol = item.symbol
                      /\ \A field \in {"price", "change", "changePercent", "volume",
                                       "marketCap", "pe", "eps"} :
                            result[j][field] =
                               IF HydrationFailed(item) THEN Num(0)
                               ELSE IF adapterCall.adapter = FMP
                                       \/ field \in {"price", "change", "changePercent"}
                               THEN Num(MaxValue)
                               ELSE Num(0)
                      /\ HydrationFailed(item) =>
                            result[j].name = (IF adapterCall.adapter = FMP
                                              THEN item.name ELSE item.description)

(* C19 witness: a search whose vendor list starts with a foreign entry and *)
(* has more than ten candidates after it has returned ten entries, the     *)
(* first one the stub of the second vendor entry, the second one the       *)
(* quote of the third.                                                     *)
C19_Witness ==
    /\ SearchSucceeded
    /\ 1 \notin CandidatePositions
    /\ Cardinality(CandidatePositions) > 10
    /\ adapterCall.outcome.kind = "returned"
    /\ Len(adapterCall.outcome.value) = 10
    /\ adapterCall.outcome.value[1] = StubStock(SymbolAt(2), NameAt(2))
    /\ adapterCall.outcome.value[2].symbol = SymbolAt(3)
    /\ adapterCall.outcome.value[2].price = Num(MaxValue)

(* The vendor reports no data for the symbol: FMP sends an empty array;    *)
(* Finnhub sends a quote without a price, or its quote for a symbol it     *)
(* does not know, a price of 0 with null change and percent change.        *)
VendorReportsNoData ==
    /\ ~adapterCall.quote.rejected
    /\ adapterCall.quote.ok
    /\ LET data == adapterCall.quote.body
       IN  IF adapterCall.adapter = FMP THEN data = JsonArray(<<>>)
           ELSE /\ data.t = "object"
                /\ \/ data.fields.c \in {Undefined, Null}
                   \/ /\ data.fields.c = Num(0)
                      /\ data.fields.d = Null
                      /\ data.fields.dp = Null

(* C20: getStockQuote fails with NotFound whenever the vendor reports no *)
(* data for the symbol, and returns no record for it.                    *)
C20_NoDataFailsWithNotFound ==
    (Ended("getStockQuote") /\ VendorReportsNoData) =>
        adapterCall.outcome = Threw(HttpException(NOT_FOUND))

(* C21: isAvailable never raises: whatever the probe request gives         *)
(* (transport error, non-2xx, a body that is not JSON or is null, an error *)
(* payload, a valid payload) it ends with true or false, and with false    *)
(* unless the response is 2xx and its payload is not the error payload.    *)
C21_IsAvailableNeverRaises ==
    Ended("isAvailable") =>
        /\ adapterCall.outcome.kind = "returned"
        /\ adapterCall.outcome.error = NoError
        /\ adapterCall.outcome.value \in BOOLEAN
        /\ adapterCall.outcome.value = TRUE =>
              /\ ~adapterCall.quote.rejected
              /\ adapterCall.quote.ok
              /\ adapterCall.quote.body.t \in {"array", "object"}

(* C21 witness: the probe of FMP has ended with false on a response that *)
(* carries a full quote under a status that is not 2xx.                  *)
C21_Witness ==
    /\ Ended("isAvailable")
    /\ adapterCall.adapter = FMP
    /\ adapterCall.quote = Response(FALSE, FullQuote(FMP, AAPL))
    /\ adapterCall.outcome = Returned(FALSE)

(* The probe of Finnhub has ended with false on a 2xx response whose body *)
(* is null, where data.hasOwnProperty throws.                             *)
C21_NullBodyIsUnavailable ==
    /\ Ended("isAvailable")
    /\ adapterCall.adapter = FINNHUB
    /\ adapterCall.quote = Response(TRUE, JsonNull)
    /\ adapterCall.outcome = Returned(FALSE)

LastProbe(call) == call.probes[Len(call.probes)]

(* C24: the cursor changes only when the scan of getCurrentProvider finds  *)
(* an available adapter (the cursor becomes its index) and in              *)
(* switchToNextProvider.  A call that returns the current adapter at once  *)
(* or fails with ServiceUnavailable, a getProviderWithFallback call that   *)
(* falls back to adapter 0, a data call of an adapter and the mock         *)
(* fallback of StocksService leave it as it is.                            *)
C24_CursorChangesOnlyByScanAndSwitch ==
    [][/\ currentProviderIndex' # currentProviderIndex =>
             \/ /\ calls' = calls
                /\ currentProviderIndex' =
                      (currentProviderIndex + 1) % Len(providers)
             \/ \E c \in Calls :
                   /\ calls[c].pc = "scan"
                   /\ calls'[c].wrote = currentProviderIndex'
                   /\ calls'[c].provider = providers[currentProviderIndex' + 1]
                   /\ LastProbe(calls'[c]) = Probe(calls'[c].provider, TRUE)
       /\ \A c \in Calls :
             (\/ calls[c].pc = "probeCurrent" /\ calls'[c].pc \in {"done", "data"}
              \/ calls[c].pc = "scan" /\ calls'[c].pc = "done"
                                      /\ calls'[c].provider = NoProvider
              \/ calls[c].pc = "data" /\ calls'[c].pc = "done"
              \/ calls[c].pc = "status" /\ calls'[c] # calls[c]) =>
                currentProviderIndex' = currentProviderIndex]_vars

(* C24 witness: with the cursor on the second adapter, a call of          *)
(* getProviderWithFallback found nothing and fell back to the first, and  *)
(* the cursor is still on the second.                                     *)
C24_Witness ==
    \E c \in Calls :
        /\ calls[c].op = "getProviderWithFallback"
        /\ NonePassed(c)
        /\ calls[c].currentProvider = 1
        /\ calls[c].result = ProviderResult(FMP)
        /\ calls[c].wrote = NoIndex
        /\ currentProviderIndex = 1

(* The step in which call c returns an adapter to its caller. *)
ReturnsAdapter(c) ==
    /\ calls[c].pc \in {"probeCurrent", "scan"}
    /\ calls'[c].pc = "done"
    /\ calls'[c].provider # NoProvider

(* C25: the adapter getCurrentProvider returns is the adapter at the      *)
(* cursor at the moment the call returns, also when switchToNextProvider  *)
(* or another getCurrentProvider call ran while it was suspended on a     *)
(* probe.                                                                 *)
C25_ReturnedAdapterIsAtCursor ==
    [][\A c \in Calls :
          ReturnsAdapter(c) =>
             calls'[c].provider = providers[currentProviderIndex' + 1]]_vars

(* C25, amended: a call that returns from its scan returns the adapter at  *)
(* the cursor, which it has just written; a call that returns at once      *)
(* returns the adapter at the cursor it read on entry, which is the        *)
(* adapter at the cursor at the moment of return when the cursor has that  *)
(* value then.                                                             *)
C25_ReturnedAdapterIsAtCursorRead ==
    [][\A c \in Calls :
          ReturnsAdapter(c) =>
             IF calls[c].pc = "scan"
             THEN /\ calls'[c].provider = providers[currentProviderIndex' + 1]
                  /\ calls'[c].wrote = currentProviderIndex'
             ELSE /\ calls'[c].provider = providers[calls[c].currentProvider + 1]
                  /\ currentProviderIndex' = currentProviderIndex
                  /\ currentProviderIndex' = calls[c].currentProvider =>
                        calls'[c].provider = providers[currentProviderIndex' + 1]]_vars

(* C25 witness: a call read the cursor on the first adapter, a switch ran *)
(* while it was suspended on the probe, and it has returned the first     *)
(* adapter with the cursor on the second.                                 *)
C25_Witness ==
    \E c \in Calls :
        /\ calls[c].op = "getCurrentProvider"
        /\ calls[c].pc = "done"
        /\ calls[c].currentProvider = 0
        /\ calls[c].probes = <<Probe(FMP, TRUE)>>
        /\ calls[c].result = ProviderResult(FMP)
        /\ currentProviderIndex = 1
        /\ switchCount = 1

(***************************************************************************)
(* PortfolioService over the portfolios collection.  Each request is an    *)
(* async call: findOne, save and every getStockQuote are awaited, and      *)
(* other requests run at these points.                                     *)
(***************************************************************************)

(* Request slots of the service when its requests run one after the other. *)
MaxPortfolioCalls == 1

(* PortfolioService requests in flight at the same time, when they overlap. *)
MaxPortfolioConcurrent == 2

(* Entries a stored portfolio can reach before no further add is started, *)
(* when requests overlap.                                                 *)
MaxStocks == 2

PortfolioCallIds ==
    1..(IF MaxPortfolioCalls > MaxPortfolioConcurrent THEN MaxPortfolioCalls
        ELSE MaxPortfolioConcurrent)

(* req.user.id of the one user the requests are made for. *)
USER == "user-1"

(* String.prototype.toUpperCase, one character. *)
toUpperCaseChar(ch) ==
    IF \E k \in 1..Len(LowerCase) : LowerCase[k] = ch
    THEN UpperCase[CHOOSE k \in 1..Len(LowerCase) : LowerCase[k] = ch]
    ELSE ch

(* String.prototype.toUpperCase. *)
toUpperCase(str) == [k \in 1..Len(str) |-> toUpperCaseChar(str[k])]

(* The symbols requests are made with: two stocks, one in three spellings. *)
InputSymbols ==
    {<<"a", "b">>, <<"A", "B">>, <<"a", "B">>, <<"c">>, <<"C">>}

(* The symbols of the requests that run concurrently. *)
ConcurrentSymbols == {<<"a", "b">>, <<"C">>}

(* findOne resolved with null. *)
NoDocument == [id |-> 0, userId |-> "", stocks |-> <<>>]

IdlePortfolioCall ==
    [pc |-> "idle", op |-> "none", userId |-> "", symbol |-> <<>>,
     portfolio |-> NoDocument, isNew |-> FALSE, stale |-> FALSE, i |-> 0,
     userStocks |-> <<>>, quoted |-> <<>>, outcome |-> "none",
     found |-> NoDocument]

(* The documents of the user, by their position in the collection. *)
DocumentsOf(collection, userId) ==
    {k \in 1..Len(collection) : collection[k].userId = userId}

(* portfolio.stocks.find(stock => stock.symbol === symbol.toUpperCase()) *)
existingStock(stocks, symbol) ==
    \E k \in 1..Len(stocks) : stocks[k] = toUpperCase(symbol)

(* Faulty variant: the entries are compared with the symbol as typed. *)
RemoveAsTyped(stocks, symbol) ==
    LET keep(stock) == stock # symbol
    IN  SelectSeq(stocks, keep)

(* portfolio.stocks.filter(stock => stock.symbol !== symbol.toUpperCase()) *)
WithoutStock(stocks, symbol) ==
    LET keep(stock) == stock # toUpperCase(symbol)
    IN  SelectSeq(stocks, keep)

(* Faulty variant: the symbol is stored as typed. *)
PushAsTyped(symbol) == symbol

(* The entry addStockToPortfolio pushes. *)
PushedStock(symbol) == toUpperCase(symbol)

(* new this.portfolioModel({ userId, stocks: [] }) *)
NewDocument(userId) == [id |-> 0, userId |-> userId, stocks |-> <<>>]

(* Faulty variant: getUserStocks gives up at the first quote that fails. *)
AfterQuoteFailsAbort(call) ==
    [call EXCEPT !.pc = "done", !.outcome = "threw",
                 !.quoted = Append(@, FALSE), !.userStocks = <<>>]

(* The body of the for loop after getStockQuote threw: the catch logs and *)
(* the loop goes on.                                                      *)
AfterQuoteFails(call) ==
    LET last == call.i >= Len(call.portfolio.stocks)
    IN  [call EXCEPT !.quoted = Append(@, FALSE),
                     !.i = @ + 1,
                     !.pc = IF last THEN "done" ELSE "quotes",
                     !.outcome = IF last THEN "returned" ELSE "none"]

(* The code that runs when findOne has resolved, up to the next await or *)
(* to the end of the call.                                               *)
AfterFindOne(call, found) ==
    LET absent == found = NoDocument
        doc == IF absent THEN NewDocument(call.userId) ELSE found
        loaded == [call EXCEPT !.portfolio = doc, !.isNew = absent,
                               !.stale = FALSE, !.found = found]
    IN  CASE call.op = "getUserStocks" ->
               IF absent THEN [loaded EXCEPT !.pc = "save"]
               ELSE IF Len(doc.stocks) = 0
               THEN [loaded EXCEPT !.pc = "done", !.outcome = "returned"]
               ELSE [loaded EXCEPT !.pc = "quotes", !.i = 1]
          [] call.op = "addStockToPortfolio" ->
               IF existingStock(doc.stocks, call.symbol)
               THEN [loaded EXCEPT !.pc = "done", !.outcome = "returned"]
               ELSE [loaded EXCEPT
                        !.pc = "save",
                        !.portfolio.stocks = Append(@, PushedStock(call.symbol))]
          [] call.op = "removeStockFromPortfolio" ->
               IF absent
               THEN [call EXCEPT !.pc = "done", !.outcome = "NotFoundException"]
               ELSE [loaded EXCEPT
                        !.pc = "save",
                        !.portfolio.stocks = WithoutStock(@, call.symbol)]

(* A request arrives and awaits portfolioModel.findOne({ userId }). *)
PortfolioStart(c, op, symbol) ==
    /\ portfolioCalls[c].pc = "idle"
    /\ portfolioCalls' =
          [portfolioCalls EXCEPT ![c] =
              [IdlePortfolioCall EXCEPT
                  !.pc = "findOne", !.op = op, !.userId = USER,
                  !.symbol = IF op = "getUserStocks" THEN <<>> ELSE symbol]]
    /\ UNCHANGED portfolios

(* findOne resolves with a document of the user, or with null when there *)
(* is none.                                                              *)
FindOne(c) ==
    /\ portfolioCalls[c].pc = "findOne"
    /\ LET matching == DocumentsOf(portfolios, portfolioCalls[c].userId)
       IN  \E found \in IF matching = {} THEN {NoDocument}
                        ELSE {portfolios[k] : k \in matching} :
              portfolioCalls' =
                 [portfolioCalls EXCEPT ![c] = AfterFindOne(@, found)]
    /\ UNCHANGED portfolios

(* The requests that hold the document, once another request has written *)
(* it, hold a version that is no longer the stored one.                  *)
MarkStale(callsNow, c, id) ==
    [d \in PortfolioCallIds |->
        IF d # c /\ callsNow[d].portfolio.id = id /\ ~callsNow[d].isNew
           /\ callsNow[d].pc \in {"save", "quotes"}
        THEN [callsNow[d] EXCEPT !.stale = TRUE]
        ELSE callsNow[d]]

(* portfolio.save() resolves.  A new document is inserted.  For a document *)
(* that was found, Mongoose sends what changed: the push of                *)
(* addStockToPortfolio goes as $push, applied to the array as stored; the  *)
(* assignment of removeStockFromPortfolio goes as $set of the whole array  *)
(* under the version the document was read with, and save throws a        *)
(* VersionError when the stored version is another.                        *)
Save(c) ==
    /\ portfolioCalls[c].pc = "save"
    /\ LET call == portfolioCalls[c]
           id == call.portfolio.id
           finished == [call EXCEPT !.pc = "done", !.outcome = "returned"]
       IN  IF call.isNew
           THEN /\ portfolios' =
                      Append(portfolios,
                             [call.portfolio EXCEPT !.id = Len(portfolios) + 1])
                /\ portfolioCalls' = [portfolioCalls EXCEPT ![c] = finished]
           ELSE IF call.op = "addStockToPortfolio"
           THEN /\ portfolios' =
                      [portfolios EXCEPT ![id].stocks =
                          Append(@, PushedStock(call.symbol))]
                /\ portfolioCalls' =
                      MarkStale([portfolioCalls EXCEPT ![c] = finished], c, id)
           ELSE IF call.stale
           THEN /\ portfolioCalls' =
                      [portfolioCalls EXCEPT ![c] =
                          [call EXCEPT !.pc = "done", !.outcome = "VersionError"]]
                /\ UNCHANGED portfolios
           ELSE /\ portfolios' =
                      [portfolios EXCEPT ![id].stocks = call.portfolio.stocks]
                /\ portfolioCalls' =
                      MarkStale([portfolioCalls EXCEPT ![c] = finished], c, id)

(* stocksService.getStockQuote(portfolioStock.symbol) resolves and its *)
(* quote is pushed.                                                    *)
QuoteSucceeds(c) ==
    /\ portfolioCalls[c].pc = "quotes"
    /\ LET call == portfolioCalls[c]
           last == call.i >= Len(call.portfolio.stocks)
       IN  portfolioCalls' =
              [portfolioCalls EXCEPT ![c] =
                  [call EXCEPT
                      !.userStocks = Append(@, call.portfolio.stocks[call.i]),
                      !.quoted = Append(@, TRUE),
                      !.i = @ + 1,
                      !.pc = IF last THEN "done" ELSE "quotes",
                      !.outcome = IF last THEN "returned" ELSE "none"]]
    /\ UNCHANGED portfolios

(* stocksService.getStockQuote(portfolioStock.symbol) throws. *)
QuoteFails(c) ==
    /\ portfolioCalls[c].pc = "quotes"
    /\ portfolioCalls' =
          [portfolioCalls EXCEPT ![c] = AfterQuoteFails(portfolioCalls[c])]
    /\ UNCHANGED portfolios

(* The response is sent. *)
PortfolioReturn(c) ==
    /\ portfolioCalls[c].pc = "done"
    /\ portfolioCalls' = [portfolioCalls EXCEPT ![c] = IdlePortfolioCall]
    /\ UNCHANGED portfolios

PortfolioOps ==
    {"getUserStocks", "addStockToPortfolio", "removeStockFromPortfolio"}

(* No request is in flight: the next one runs after the others have ended. *)
NoneInFlight == \A d \in PortfolioCallIds : portfolioCalls[d].pc = "idle"

(* The stored portfolios have room for what the adds in flight and one *)
(* more can push.                                                      *)
BelowMaxStocks ==
    \A k \in 1..Len(portfolios) :
        Len(portfolios[k].stocks)
           + Cardinality({d \in PortfolioCallIds :
                             portfolioCalls[d].op = "addStockToPortfolio"})
           < MaxStocks

otherVars ==
    <<selectorVars, mockCall, adapterCall, queryData, mutations>>

InitPortfolio ==
    /\ SelectorAtRest
    /\ mockCall = NoMockCall
    /\ adapterCall = NoAdapterCall
    /\ CacheAtRest
    /\ portfolios = <<>>
    /\ portfolioCalls = [c \in PortfolioCallIds |-> IdlePortfolioCall]

(* The requests of one user, one after the other. *)
NextPortfolio ==
    \/ \E c \in 1..MaxPortfolioCalls, op \in PortfolioOps, symbol \in InputSymbols :
          NoneInFlight /\ PortfolioStart(c, op, symbol) /\ UNCHANGED otherVars
    \/ \E c \in 1..MaxPortfolioCalls : FindOne(c) /\ UNCHANGED otherVars
    \/ \E c \in 1..MaxPortfolioCalls : Save(c) /\ UNCHANGED otherVars
    \/ \E c \in 1..MaxPortfolioCalls : QuoteSucceeds(c) /\ UNCHANGED otherVars
    \/ \E c \in 1..MaxPortfolioCalls : QuoteFails(c) /\ UNCHANGED otherVars
    \/ \E c \in 1..MaxPortfolioCalls : PortfolioReturn(c) /\ UNCHANGED otherVars

SpecPortfolio == InitPortfolio /\ [][NextPortfolio]_vars

(* The requests of one user, as they arrive: a request can start while *)
(* others are suspended.  Every quote is to be had.                    *)
NextPortfolioConcurrent ==
    \/ \E c \in 1..MaxPortfolioConcurrent, op \in PortfolioOps,
          symbol \in ConcurrentSymbols :
          /\ op = "addStockToPortfolio" => BelowMaxStocks
          /\ PortfolioStart(c, op, symbol)
          /\ UNCHANGED otherVars
    \/ \E c \in 1..MaxPortfolioConcurrent : FindOne(c) /\ UNCHANGED otherVars
    \/ \E c \in 1..MaxPortfolioConcurrent : Save(c) /\ UNCHANGED otherVars
    \/ \E c \in 1..MaxPortfolioConcurrent : QuoteSucceeds(c) /\ UNCHANGED otherVars
    \/ \E c \in 1..MaxPortfolioConcurrent : PortfolioReturn(c) /\ UNCHANGED otherVars

SpecPortfolioConcurrent == InitPortfolio /\ [][NextPortfolioConcurrent]_vars

(* The entries of a list at the positions the mask keeps, in their order. *)
RECURSIVE Kept(_, _)
Kept(list, mask) ==
    IF Len(list) = 0 THEN <<>>
    ELSE IF mask[1] THEN <<list[1]>> \o Kept(Tail(list), Tail(mask))
    ELSE Kept(Tail(list), Tail(mask))

(* The call has ended and its response is not yet sent. *)
PortfolioEnded(c, op) ==
    /\ portfolioCalls[c].pc = "done"
    /\ portfolioCalls[c].op = op

(* The two symbols are the same up to the case of their letters. *)
SameSymbol(a, b) ==
    /\ Len(a) = Len(b)
    /\ \A k \in 1..Len(a) : SameLetter(a[k], b[k])

(* No entry of the list stands at two positions. *)
NoSymbolTwice(stocks) ==
    \A j, k \in 1..Len(stocks) : stocks[j] = stocks[k] => j = k

(* The user had a portfolio holding the symbol of the call, in whatever *)
(* case it was typed.                                                    *)
AlreadyPresent(call) ==
    /\ call.found # NoDocument
    /\ \E k \in 1..Len(call.found.stocks) :
          SameSymbol(call.found.stocks[k], call.symbol)

(* C26: when the add and remove requests of one user run one after the   *)
(* other, every stored portfolio holds each symbol at most once and in   *)
(* upper case, and an add of a symbol the portfolio already holds, typed *)
(* in any case, leaves the portfolio as it was.                          *)
C26_SymbolsUniqueAndUpperCase ==
    /\ \A k \in 1..Len(portfolios) :
          /\ NoSymbolTwice(portfolios[k].stocks)
          /\ \A j \in 1..Len(portfolios[k].stocks) :
                \A m \in 1..Len(portfolios[k].stocks[j]) :
                   \E u \in 1..Len(UpperCase) :
                      portfolios[k].stocks[j][m] = UpperCase[u]
    /\ \A c \in PortfolioCallIds :
          (PortfolioEnded(c, "addStockToPortfolio")
             /\ AlreadyPresent(portfolioCalls[c]))
          => /\ portfolioCalls[c].outcome = "returned"
             /\ portfolios = <<portfolioCalls[c].found>>

(* The symbol typed in lower case is added to a portfolio that holds it. *)
C26_Witness ==
    /\ PortfolioEnded(1, "addStockToPortfolio")
    /\ portfolioCalls[1].symbol = <<"a", "b">>
    /\ portfolioCalls[1].found.stocks = <<<<"C">>, <<"A", "B">>>>
    /\ portfolios[1].stocks = <<<<"C">>, <<"A", "B">>>>

C28_NotFoundCreatesNothing ==
    /\ PortfolioEnded(1, "removeStockFromPortfolio")
    /\ portfolioCalls[1].outcome = "NotFoundException"
    /\ portfolios = <<>>

(* C29: getUserStocks returns whatever the quotes do: the quotes of the  *)
(* symbols whose getStockQuote succeeded, in the order of the portfolio; *)
(* for a user without a portfolio it stores an empty one and returns an  *)
(* empty list; it leaves the stocks of a stored portfolio as they were.  *)
C29_GetUserStocksSkipsFailedQuotes ==
    \A c \in PortfolioCallIds :
       PortfolioEnded(c, "getUserStocks") =>
          LET call == portfolioCalls[c]
          IN  /\ call.outcome = "returned"
              /\ IF call.found = NoDocument
                 THEN /\ call.userStocks = <<>>
                      /\ Len(portfolios) = 1
                      /\ portfolios[1].userId = call.userId
                      /\ portfolios[1].stocks = <<>>
                 ELSE /\ Len(call.quoted) = Len(call.found.stocks)
                      /\ call.userStocks = Kept(call.found.stocks, call.quoted)
                      /\ portfolios = <<call.found>>

(* The first of two quotes fails and the second is returned. *)
C29_Witness ==
    /\ PortfolioEnded(1, "getUserStocks")
    /\ portfolioCalls[1].found.stocks = <<<<"A", "B">>, <<"C">>>>
    /\ portfolioCalls[1].quoted = <<FALSE, TRUE>>
    /\ portfolioCalls[1].userStocks = <<<<"C">>>>
    /\ portfolioCalls[1].outcome = "returned"

(* The document the call is about to save is still what the collection *)
(* holds for the user: none when the call made a new one, the one it    *)
(* read, unchanged since, otherwise.                                    *)
SavesWhatItFound(call) ==
    IF call.isNew
    THEN DocumentsOf(portfolios, call.userId) = {}
    ELSE /\ call.found.id \in 1..Len(portfolios)
         /\ portfolios[call.found.id] = call.found

(* C27: when the requests of one user overlap, the collection holds at  *)
(* most one document of the user, no document holds a symbol twice, and *)
(* every call saves over the document it found, so that no add or       *)
(* remove that ended is undone or missed by another.                    *)
C27_ConcurrentRequestsAreAtomic ==
    /\ Cardinality(DocumentsOf(portfolios, USER)) <= 1
    /\ \A k \in 1..Len(portfolios) : NoSymbolTwice(portfolios[k].stocks)
    /\ \A c \in PortfolioCallIds :
          portfolioCalls[c].pc = "save" => SavesWhatItFound(portfolioCalls[c])

(***************************************************************************)
(* usePortfolioActions over the query cache of the user-stocks list.  The  *)
(* server is PortfolioService, each of its requests taken as one step; the *)
(* quotes of getUserStocks all succeed.                                    *)
(***************************************************************************)

(* Calls of addStock.mutate and removeStock.mutate in one run. *)
MaxMutations == 2

MutationIds == 1..MaxMutations

(* The symbols the mutations are made with. *)
CacheSymbols == {<<"A", "B">>, <<"C">>}

(* A stock of the list GET /portfolio answered. *)
FetchedStock(symbol) == [symbol |-> symbol, name |-> "quoted"]

(* placeholderStock of addStock.onMutate. *)
placeholderStock(symbolToAdd) == [symbol |-> symbolToAdd, name |-> "Loading"]

IdleMutation ==
    [pc |-> "idle", kind |-> "none", symbol |-> <<>>,
     previousStocks |-> [defined |-> FALSE, list |-> <<>>]]

(* queryClient.getQueryData(portfolioKeys.userStocks()) *)
getQueryData == [defined |-> queryData.defined, list |-> queryData.list]

(* The updater of setQueryData in onMutate, applied to the cached list. *)
OptimisticUpdate(kind, symbol, old) ==
    IF kind = "addStock"
    THEN Append(old, placeholderStock(symbol))
    ELSE LET keep(stock) == stock.symbol # symbol
         IN  SelectSeq(old, keep)

(* onError: setQueryData(portfolioKeys.userStocks(), context.previousStocks) *)
RolledBack(mutation) == mutation.previousStocks.list

(* The list GET /portfolio answers. *)
ServerStocks ==
    IF portfolios = <<>> THEN <<>>
    ELSE [k \in 1..Len(portfolios[1].stocks) |->
             FetchedStock(portfolios[1].stocks[k])]

(* The collection after the server has handled the request of the mutation. *)
ServerAfter(mutation) ==
    LET doc == IF portfolios = <<>>
               THEN [NewDocument(USER) EXCEPT !.id = 1]
               ELSE portfolios[1]
    IN  IF mutation.kind = "addStock"
        THEN IF existingStock(doc.stocks, mutation.symbol) THEN <<doc>>
             ELSE <<[doc EXCEPT !.stocks = Append(@, PushedStock(mutation.symbol))]>>
        ELSE <<[doc EXCEPT !.stocks = WithoutStock(@, mutation.symbol)]>>

(* The query fetches: on mount, on focus, or after invalidateQueries. *)
FetchStart ==
    /\ ~queryData.fetching
    /\ queryData' = [queryData EXCEPT !.fetching = TRUE]
    /\ UNCHANGED <<mutations, portfolios>>

(* GET /portfolio answers: getUserStocks stores an empty portfolio for a *)
(* user without one, and the answer is cached.                           *)
FetchResolves ==
    /\ queryData.fetching
    /\ queryData' = [defined |-> TRUE, list |-> ServerStocks, fetching |-> FALSE]
    /\ portfolios' = IF portfolios = <<>>
                     THEN <<[NewDocument(USER) EXCEPT !.id = 1]>>
                     ELSE portfolios
    /\ UNCHANGED mutations

(* mutate(symbol) starts a mutation: onMutate runs up to await            *)
(* cancelQueries, which cancels the fetch in flight.                      *)
MutateStart(m, kind, symbol) ==
    /\ mutations[m].pc = "idle"
    /\ mutations' = [mutations EXCEPT ![m] =
                        [IdleMutation EXCEPT !.pc = "cancelQueries",
                                             !.kind = kind, !.symbol = symbol]]
    /\ queryData' = [queryData EXCEPT !.fetching = FALSE]
    /\ UNCHANGED portfolios

(* The rest of onMutate: the snapshot, the optimistic update when there is *)
(* cached data, and the request is sent.                                   *)
OnMutate(m) ==
    /\ mutations[m].pc = "cancelQueries"
    /\ mutations' = [mutations EXCEPT ![m].pc = "mutationFn",
                                      ![m].previousStocks = getQueryData]
    /\ queryData' =
          IF queryData.defined
          THEN [queryData EXCEPT !.list =
                   OptimisticUpdate(mutations[m].kind, mutations[m].symbol, @)]
          ELSE queryData
    /\ UNCHANGED portfolios

(* The request succeeds: onSuccess of addStock and onSettled of removeStock *)
(* invalidate the query, which fetches again.                               *)
MutationSucceeds(m) ==
    /\ mutations[m].pc = "mutationFn"
    /\ mutations[m].kind = "removeStock" => portfolios # <<>>
    /\ portfolios' = ServerAfter(mutations[m])
    /\ mutations' = [mutations EXCEPT ![m] = [IdleMutation EXCEPT !.pc = "success"]]
    /\ queryData' = [queryData EXCEPT !.fetching = TRUE]

(* The request fails, the server having changed nothing: onError puts the *)
(* snapshot back when there is one; onSettled of removeStock invalidates  *)
(* the query.                                                             *)
MutationFails(m) ==
    /\ mutations[m].pc = "mutationFn"
    /\ mutations' = [mutations EXCEPT ![m] = [IdleMutation EXCEPT !.pc = "error"]]
    /\ queryData' =
          [queryData EXCEPT
              !.list = IF mutations[m].previousStocks.defined
                       THEN RolledBack(mutations[m])
                       ELSE @,
              !.defined = @ \/ mutations[m].previousStocks.defined,
              !.fetching = IF mutations[m].kind = "removeStock" THEN TRUE ELSE @]
    /\ UNCHANGED portfolios

MutationKinds == {"addStock", "removeStock"}

(* The lists a stored portfolio can hold when the page is opened. *)
StoredStocks ==
    {<<>>, <<<<"A", "B">>>>, <<<<"C">>>>, <<<<"A", "B">>, <<"C">>>>}

cacheOtherVars == <<selectorVars, mockCall, adapterCall, portfolioCalls>>

InitCache ==
    /\ SelectorAtRest
    /\ mockCall = NoMockCall
    /\ adapterCall = NoAdapterCall
    /\ \E stocks \in StoredStocks :
          portfolios \in {<<>>, <<[NewDocument(USER) EXCEPT !.id = 1,
                                                         !.stocks = stocks]>>}
    /\ portfolioCalls = <<>>
    /\ queryData = NoQueryData
    /\ mutations = [m \in MutationIds |-> IdleMutation]

NextCache ==
    \/ FetchStart /\ UNCHANGED cacheOtherVars
    \/ FetchResolves /\ UNCHANGED cacheOtherVars
    \/ \E m \in MutationIds, kind \in MutationKinds, symbol \in CacheSymbols :
          MutateStart(m, kind, symbol) /\ UNCHANGED cacheOtherVars
    \/ \E m \in MutationIds : OnMutate(m) /\ UNCHANGED cacheOtherVars
    \/ \E m \in MutationIds : MutationSucceeds(m) /\ UNCHANGED cacheOtherVars
    \/ \E m \in MutationIds : MutationFails(m) /\ UNCHANGED cacheOtherVars

SpecCache == InitCache /\ [][NextCache]_vars

(* The stock is in the list. *)
Cached(list, stock) == \E k \in 1..Len(list) : list[k] = stock

(* The list holds a stock of the symbol. *)
CachedSymbol(list, symbol) == \E k \in 1..Len(list) : list[k].symbol = symbol

(* The mutation made its optimistic update and its request is in flight. *)
UpdateInFlight(m) ==
    /\ mutations[m].pc = "mutationFn"
    /\ mutations[m].previousStocks.defined

(* C22: when an addStock or removeStock mutation fails, the cached list  *)
(* becomes the list as it was before the optimistic update of that       *)
(* mutation, and the entries of another mutation in flight are kept: the *)
(* placeholder another addStock appended stays in the list, the symbol   *)
(* another removeStock filtered out stays out of it.                     *)
C22_RollbackKeepsOtherMutations ==
    [][\A m \in MutationIds :
          (UpdateInFlight(m) /\ mutations'[m].pc = "error") =>
             /\ queryData'.list = mutations[m].previousStocks.list
             /\ \A o \in MutationIds \ {m} :
                   UpdateInFlight(o) =>
                      IF mutations[o].kind = "addStock"
                      THEN Cached(queryData.list,
                                  placeholderStock(mutations[o].symbol))
                           => Cached(queryData'.list,
                                     placeholderStock(mutations[o].symbol))
                      ELSE ~CachedSymbol(queryData.list, mutations[o].symbol)
                           => ~CachedSymbol(queryData'.list,
                                            mutations[o].symbol)]_vars

(* A failed mutation puts its snapshot back. *)
C22_RollbackRestoresSnapshot ==
    [][\A m \in MutationIds :
          (UpdateInFlight(m) /\ mutations'[m].pc = "error") =>
             queryData'.list = mutations[m].previousStocks.list]_vars

====
